---- MODULE Spec2Model ----
(***************************************************************************)
(* Strike-bucket aggregation and bucket matching of the option pipeline.   *)
(*                                                                         *)
(* Numbers.  Every float of the program is a fixed-point number with two   *)
(* decimals, held as an integer count of hundredths: 24.50 is 2450, a      *)
(* tenor of 45 days is 4500.  F(n) writes the whole number n.              *)
(*                                                                         *)
(* Cells.  A cell of a data frame is NaN (pandas NaN and Python None       *)
(* alike), a number Num(x), or a text Str(s).  A text is the sequence of   *)
(* its characters.                                                         *)
(*                                                                         *)
(* Files.  A CSV file is a record [exists, columns, rows]; a file that     *)
(* does not exist is NoFile.                                               *)
(***************************************************************************)
EXTENDS Integers, Sequences, FiniteSets, TLC

F(n) == n * 100

NaN == [k |-> "nan", v |-> 0, s |-> <<>>]
Num(x) == [k |-> "num", v |-> x, s |-> <<>>]
Str(cs) == [k |-> "str", v |-> 0, s |-> cs]

\* pd.isna
isna(c) == c.k = "nan"

NoFile == [exists |-> FALSE, columns |-> {}, rows |-> <<>>]
CsvFile(cols, rows) == [exists |-> TRUE, columns |-> cols, rows |-> rows]

T_ABC == <<"A", "B", "C">>
T_DEF == <<"D", "E", "F">>

(***************************************************************************)
(* Python text operations, on sequences of characters.                     *)
(***************************************************************************)
Digits == {"0", "1", "2", "3", "4", "5", "6", "7", "8", "9"}

DigitVal(c) ==
    CASE c = "0" -> 0 [] c = "1" -> 1 [] c = "2" -> 2 [] c = "3" -> 3
      [] c = "4" -> 4 [] c = "5" -> 5 [] c = "6" -> 6 [] c = "7" -> 7
      [] c = "8" -> 8 [] c = "9" -> 9

RECURSIVE DigitsVal(_)
DigitsVal(s) ==
    IF s = <<>> THEN 0
    ELSE DigitsVal(SubSeq(s, 1, Len(s) - 1)) * 10 + DigitVal(s[Len(s)])

\* str.strip(): leading and trailing blanks removed
RECURSIVE strip(_)
strip(s) ==
    IF s = <<>> THEN s
    ELSE IF Head(s) = " " THEN strip(Tail(s))
    ELSE IF s[Len(s)] = " " THEN strip(SubSeq(s, 1, Len(s) - 1))
    ELSE s

\* str.replace(old, new) for a one-character old and a text new
RECURSIVE replace(_, _, _)
replace(s, old, new) ==
    IF s = <<>> THEN <<>>
    ELSE (IF Head(s) = old THEN new ELSE <<Head(s)>>) \o replace(Tail(s), old, new)

\* the index of the first occurrence of character c in s, 0 when there is none
RECURSIVE find(_, _)
find(s, c) ==
    IF s = <<>> THEN 0
    ELSE IF Head(s) = c THEN 1
    ELSE LET r == find(Tail(s), c) IN IF r = 0 THEN 0 ELSE r + 1

AllDigits(s) == \A i \in 1..Len(s) : s[i] \in Digits

\* the text without its sign
Unsigned(s) == IF s # <<>> /\ Head(s) \in {"-", "+"} THEN Tail(s) ELSE s

\* float(text) succeeds: blanks around, optional sign, digits with at most one
\* '.', at least one digit.  (Exponents, inf, nan and '_' are no part of the
\* inputs enumerated here.)
CanFloat(text) ==
    LET u == Unsigned(strip(text))
        d == find(u, ".")
        ip == IF d = 0 THEN u ELSE SubSeq(u, 1, d - 1)
        fp == IF d = 0 THEN <<>> ELSE SubSeq(u, d + 1, Len(u))
    IN  AllDigits(ip) /\ AllDigits(fp) /\ Len(ip) + Len(fp) >= 1

\* float(text), in hundredths (digits past the second decimal are cut)
FloatVal(text) ==
    LET t == strip(text)
        u == Unsigned(t)
        d == find(u, ".")
        ip == IF d = 0 THEN u ELSE SubSeq(u, 1, d - 1)
        fp == IF d = 0 THEN <<>> ELSE SubSeq(u, d + 1, Len(u))
        fv == IF Len(fp) = 0 THEN 0
              ELSE IF Len(fp) = 1 THEN DigitVal(fp[1]) * 10
              ELSE DigitsVal(SubSeq(fp, 1, 2))
        m == DigitsVal(ip) * 100 + fv
    IN  IF t # <<>> /\ Head(t) = "-" THEN 0 - m ELSE m

\* pd.to_numeric(errors="coerce") on one cell
to_numeric(c) ==
    IF c.k = "str"
    THEN (IF CanFloat(c.s) THEN Num(FloatVal(c.s)) ELSE NaN)
    ELSE c

(***************************************************************************)
(* aggregate_strike_buckets.py                                             *)
(***************************************************************************)
VARIABLES
    agg_pc,          \* run(): "start", "load" (about to load the buckets), "loop",
                     \* "called" (inside the loop body, after aggregate_for_ticker
                     \* returned), "returned" (early return), "aborted" (an
                     \* exception left run()) or "done"
    agg_env,         \* what the run finds: the bucket definition file, whether
                     \* tickers are configured, whether the output directory exists
    agg_log,         \* per ticker handled so far, what became of it
    buckets,         \* the list load_strike_buckets returned
    agg_i,           \* index in tickers of the next ticker of run()'s loop
    input_file,      \* the input file the last aggregate_for_ticker found
    bucket_df,       \* per bucket, the row indices of df its mask selected
    summary_before,  \* the last ticker's summary file before the call
    summary_files    \* ticker -> its <ticker>_strike_buckets_summary.csv

aggVars == <<agg_pc, agg_env, agg_log, buckets, agg_i, input_file, bucket_df,
             summary_before, summary_files>>

\* config["tickers"]
tickers == <<T_ABC, T_DEF>>

Bucket(lo, hi) == [lower |-> lo, upper |-> hi]

\* contents of config/strike_buckets.yaml: adjacent ranges, three adjacent
\* ranges out of numeric order, ranges with a gap, overlapping ranges
BucketConfigs ==
    { << Bucket(F(0), F(25)), Bucket(F(25), F(50)) >>,
      << Bucket(F(25), F(50)), Bucket(F(0), F(25)), Bucket(F(50), F(100)) >>,
      << Bucket(F(0), F(25)), Bucket(F(30), F(50)) >>,
      << Bucket(F(0), F(30)), Bucket(F(20), F(50)) >> }

MaxInputRows == 2

InputRow(rs, mt) == [relative_strike |-> rs, max_tenor_for_strike |-> mt]

RelativeStrikeCells ==
    { Str(<<"x">>), Num(F(10)), Num(F(25)), Num(F(60)) }

MaxTenorCells == { NaN, Num(F(5)), Num(F(45)) }

InputRows ==
    { InputRow(rs, mt) : rs \in RelativeStrikeCells, mt \in MaxTenorCells }

SeqsUpTo(S, n) == UNION { [1..k -> S] : k \in 0..n }

\* what <ticker>_options_all_expirations_filtered.csv can be: missing, without
\* one of the two columns, or with both and up to MaxInputRows rows
InputFiles ==
    { NoFile }
      \cup { CsvFile({"strike", "relative_strike"}, <<>>),
             CsvFile({"strike", "max_tenor_for_strike"}, <<>>) }
      \cup { CsvFile({"strike", "relative_strike", "max_tenor_for_strike"}, rows) :
               rows \in SeqsUpTo(InputRows, MaxInputRows) }

\* a summary left by an earlier run, under another bucket configuration
StaleSummary ==
    CsvFile({"ticker", "lower", "upper", "max_tenor_for_strike"},
            << [ticker |-> T_ABC, lower |-> Num(F(0)), upper |-> Num(F(999)),
                max_tenor_for_strike |-> Num(F(7))] >>)

\* df after the two to_numeric calls
coerce(rows) ==
    [i \in 1..Len(rows) |->
        InputRow(to_numeric(rows[i].relative_strike),
                 to_numeric(rows[i].max_tenor_for_strike))]

\* the indices of the rows df.dropna(subset=[...]) keeps, in order
RECURSIVE dropna(_, _)
dropna(rows, i) ==
    IF i > Len(rows) THEN <<>>
    ELSE (IF isna(rows[i].relative_strike) \/ isna(rows[i].max_tenor_for_strike)
          THEN <<>> ELSE <<i>>) \o dropna(rows, i + 1)

\* mutant: the upper bound taken as part of the range
bucket_mask_closed(rel, lower, upper) == rel >= lower /\ rel <= upper

\* one row of the mask: relative_strike in [lower, upper)
bucket_mask(rel, lower, upper) == rel >= lower /\ rel < upper

\* bucket_df = df[mask], as indices into the input rows
select_bucket(rows, kept, b) ==
    SelectSeq(kept, LAMBDA i : bucket_mask(rows[i].relative_strike.v, b.lower, b.upper))

\* mutant: the first selected row's value instead of the maximum
series_max_first(rows, idx) == rows[idx[1]].max_tenor_for_strike.v

\* Series.max() over the selected rows (none of them NaN after dropna)
RECURSIVE series_max(_, _)
series_max(rows, idx) ==
    IF Len(idx) = 1 THEN rows[idx[1]].max_tenor_for_strike.v
    ELSE LET m == series_max(rows, Tail(idx))
             h == rows[idx[1]].max_tenor_for_strike.v
         IN  IF h >= m THEN h ELSE m

\* the statistic of one bucket: None for an empty bucket_df
bucket_max_tenor(rows, sel) ==
    IF sel = <<>> THEN NaN ELSE Num(series_max(rows, sel))

\* mutant: a bucket without rows is left out of the summary
result_rows_omit_empty(ticker, rows, kept, bs) ==
    LET all == [i \in 1..Len(bs) |->
                  [ticker |-> ticker,
                   lower |-> Num(bs[i].lower),
                   upper |-> Num(bs[i].upper),
                   max_tenor_for_strike |->
                       bucket_max_tenor(rows, select_bucket(rows, kept, bs[i]))]]
    IN  SelectSeq(all, LAMBDA r : ~isna(r.max_tenor_for_strike))

\* the rows list built by the loop over the buckets
result_rows(ticker, rows, kept, bs) ==
    [i \in 1..Len(bs) |->
        [ticker |-> ticker,
         lower |-> Num(bs[i].lower),
         upper |-> Num(bs[i].upper),
         max_tenor_for_strike |->
             bucket_max_tenor(rows, select_bucket(rows, kept, bs[i]))]]

\* whether aggregate_for_ticker reaches its loop over the buckets
reaches_loop(f) ==
    /\ f.exists
    /\ "relative_strike" \in f.columns
    /\ "max_tenor_for_strike" \in f.columns
    /\ dropna(coerce(f.rows), 1) # <<>>

\* the ticker's summary file after aggregate_for_ticker
summary_after(ticker, f, bs, old) ==
    IF reaches_loop(f)
    THEN CsvFile({"ticker", "lower", "upper", "max_tenor_for_strike"},
                 result_rows(ticker, coerce(f.rows), dropna(coerce(f.rows), 1), bs))
    ELSE old

\* the masks' selections, kept for the claims
selections(f, bs) ==
    IF reaches_loop(f)
    THEN [i \in 1..Len(bs) |->
            select_bucket(coerce(f.rows), dropna(coerce(f.rows), 1), bs[i])]
    ELSE <<>>

\* config/strike_buckets.yaml: missing, or with a strike_buckets value that
\* is no list, or a list (the empty one also standing for an absent key)
NoYaml == [exists |-> FALSE, is_list |-> FALSE, strike_buckets |-> <<>>]
BucketYamls ==
    { NoYaml, [exists |-> TRUE, is_list |-> FALSE, strike_buckets |-> <<>>] }
      \cup { [exists |-> TRUE, is_list |-> TRUE, strike_buckets |-> bs] :
               bs \in BucketConfigs \cup {<<>>} }

AggEnvs ==
    { [yaml |-> y, has_tickers |-> ht, outdir_exists |-> oe] :
        y \in BucketYamls, ht \in BOOLEAN, oe \in BOOLEAN }

\* mutant: the list is returned as it is, empty or not
strike_buckets_unchecked(yaml) ==
    IF ~yaml.exists THEN [raised |-> TRUE, buckets |-> <<>>]
    ELSE [raised |-> FALSE, buckets |-> yaml.strike_buckets]

\* what load_strike_buckets returns or that it raises
strike_buckets_of(yaml) ==
    IF ~yaml.exists THEN [raised |-> TRUE, buckets |-> <<>>]
    ELSE IF ~yaml.is_list \/ yaml.strike_buckets = <<>>
         THEN [raised |-> TRUE, buckets |-> <<>>]
    ELSE [raised |-> FALSE, buckets |-> yaml.strike_buckets]

\* the exit status of the script once run() is over
exit_status(pc) == IF pc = "aborted" THEN 1 ELSE 0

\* what became of the ticker: its input was missing (directory or file), the
\* call returned before the buckets, or the summary was written
agg_tag(f) ==
    IF ~f.exists THEN "missing"
    ELSE IF reaches_loop(f) THEN "written"
    ELSE "skipped"

\* mutant: the loop ends at the first ticker without input
next_index_stop(tag, i) == IF tag = "missing" THEN Len(tickers) + 1 ELSE i + 1

\* the for loop's next index after the call for ticker i returned
next_index(tag, i) == i + 1

InitAggregate ==
    /\ agg_pc = "start"
    /\ agg_env \in AggEnvs
    /\ agg_log = <<>>
    /\ buckets = <<>>
    /\ agg_i = 1
    /\ input_file = NoFile
    /\ bucket_df = <<>>
    /\ summary_before = NoFile
    /\ \E old \in {NoFile, StaleSummary} :
         summary_files = [t \in {T_ABC, T_DEF} |-> old]

\* run() before it loads the buckets: without tickers or output directory it
\* returns
run_checks ==
    /\ agg_pc = "start"
    /\ agg_pc' = IF agg_env.has_tickers /\ agg_env.outdir_exists
                 THEN "load" ELSE "returned"
    /\ UNCHANGED <<agg_env, agg_log, buckets, agg_i, input_file, bucket_df,
                   summary_before, summary_files>>

load_strike_buckets ==
    /\ agg_pc = "load"
    /\ \E r \in {strike_buckets_of(agg_env.yaml)} :
         /\ buckets' = r.buckets
         /\ agg_pc' = IF r.raised THEN "aborted" ELSE "loop"
    /\ UNCHANGED <<agg_env, agg_log, agg_i, input_file, bucket_df, summary_before,
                   summary_files>>

aggregate_for_ticker(ticker) ==
    /\ agg_pc = "loop"
    /\ agg_i <= Len(tickers)
    /\ ticker = tickers[agg_i]
    /\ \E f \in InputFiles :
         /\ input_file' = f
         /\ bucket_df' = selections(f, buckets)
         /\ summary_files' =
              [summary_files EXCEPT
                 ![ticker] = summary_after(ticker, f, buckets, summary_files[ticker])]
         /\ agg_log' = Append(agg_log, agg_tag(f))
    /\ summary_before' = summary_files[ticker]
    /\ agg_pc' = "called"
    /\ UNCHANGED <<agg_env, agg_i, buckets>>

\* run()'s for loop moves on to the next ticker; the call's locals are gone
next_ticker ==
    /\ agg_pc = "called"
    /\ agg_i' = next_index(agg_log[Len(agg_log)], agg_i)
    /\ agg_pc' = "loop"
    /\ input_file' = NoFile
    /\ bucket_df' = <<>>
    /\ summary_before' = NoFile
    /\ UNCHANGED <<agg_env, agg_log, buckets, summary_files>>

aggregate_completed ==
    /\ agg_pc = "loop"
    /\ agg_i > Len(tickers)
    /\ agg_pc' = "done"
    /\ UNCHANGED <<agg_env, agg_log, buckets, agg_i, input_file, bucket_df,
                   summary_before, summary_files>>

(***************************************************************************)
(* The summaries the matchers read, under                                  *)
(* csv_out/YYYY/MM/DD/enriched/<TICKER>/<TICKER>_strike_buckets_summary.csv *)
(***************************************************************************)
VARIABLES
    script,            \* the script this run is of: "aggregate", "single", "basket",
                       \* "tenor", "max_tenor", "relative_strike"
    enriched_summary,  \* ticker -> its summary file in the dated enriched directory
    disk_reads         \* ticker -> how many times this run looked its summary up on disk

SummaryRow(lo, hi, mt) ==
    [lower |-> Num(lo), upper |-> Num(hi), max_tenor_for_strike |-> mt]

SummaryColumns == {"ticker", "lower", "upper", "max_tenor_for_strike"}

\* adjacent buckets [0,20) [20,30) [30,50)
AdjacentSummary ==
    CsvFile(SummaryColumns,
            << SummaryRow(F(0), F(20), Num(F(10))),
               SummaryRow(F(20), F(30), Num(F(45))),
               SummaryRow(F(30), F(50), Num(F(20))) >>)

\* overlapping buckets, the first of them without a statistic
OverlappingSummary ==
    CsvFile(SummaryColumns,
            << SummaryRow(F(30), F(50), NaN),
               SummaryRow(F(20), F(30), Num(F(60))),
               SummaryRow(F(0), F(50), Num(F(10) + 50)) >>)

\* a summary file without its max_tenor_for_strike column
MalformedSummary ==
    CsvFile({"ticker", "lower", "upper"},
            << [lower |-> Num(F(20)), upper |-> Num(F(30)), max_tenor_for_strike |-> NaN] >>)

SummaryFiles == { NoFile, MalformedSummary, AdjacentSummary, OverlappingSummary }

\* the file at a ticker's summary path; no file for a name that is no ticker
summary_path(t) == IF t \in DOMAIN enriched_summary THEN enriched_summary[t] ELSE NoFile

\* the cached value None
None_df == [is_none |-> TRUE, rows |-> <<>>]

\* the part of load_summary_for / load_summary that reads the file: None for a
\* missing file or missing columns, else the rows with the three columns
\* made numeric
read_summary(f) ==
    IF ~f.exists THEN None_df
    ELSE IF ~({"lower", "upper", "max_tenor_for_strike"} \subseteq f.columns) THEN None_df
    ELSE [is_none |-> FALSE,
          rows |-> [i \in 1..Len(f.rows) |->
                      [lower |-> to_numeric(f.rows[i].lower),
                       upper |-> to_numeric(f.rows[i].upper),
                       max_tenor_for_strike |-> to_numeric(f.rows[i].max_tenor_for_strike)]]]

\* cache after load_summary_for(key): an entry is added on the first access
\* the look-ups on disk after a step that took the cache from cache to
\* cache2: one more for every key the step added
reads_after(reads, cache, cache2) ==
    [t \in DOMAIN reads \cup DOMAIN cache2 |->
        (IF t \in DOMAIN reads THEN reads[t] ELSE 0)
          + (IF t \in DOMAIN cache2 \ DOMAIN cache THEN 1 ELSE 0)]

cache_after(cache, t) ==
    IF t \in DOMAIN cache THEN cache ELSE (t :> read_summary(summary_path(t))) @@ cache

\* mutant: the earlier revision's range, lower < rel <= upper
summary_mask_upper_closed(row, rel) ==
    /\ ~isna(row.lower) /\ ~isna(row.upper)
    /\ row.lower.v < rel /\ row.upper.v >= rel

\* one row of (summary["lower"] <= rel) & (summary["upper"] > rel); a
\* comparison with NaN is False
summary_mask(row, rel) ==
    /\ ~isna(row.lower) /\ ~isna(row.upper)
    /\ row.lower.v <= rel /\ row.upper.v > rel

\* match = summary[mask], as the indices of the matching rows in file order
RECURSIVE match_rows(_, _, _)
match_rows(rows, rel, i) ==
    IF i > Len(rows) THEN <<>>
    ELSE (IF summary_mask(rows[i], rel) THEN <<i>> ELSE <<>>)
            \o match_rows(rows, rel, i + 1)

\* mutant: the last matching row instead of the first
first_match_last(rows, match) == rows[match[Len(match)]].max_tenor_for_strike

\* match["max_tenor_for_strike"].iloc[0]
first_match(rows, match) == rows[match[1]].max_tenor_for_strike

(***************************************************************************)
(* add_fair_value_from_buckets.py                                          *)
(***************************************************************************)
VARIABLES
    match_pc,        \* main(): "apply", "done" or "raised" (ended by an exception)
    rs_dtype,        \* dtype of the portfolio's relative_strike column
    portfolio,       \* the portfolio rows handed to compute_fair_value so far
    fair_value,      \* the values compute_fair_value returned, row by row
    rels,            \* per row, the rel it parsed (NaN when it got none)
    matches,         \* per row, the indices of the summary rows of its match
    summary_cache,   \* ticker -> the summary cached for (run_date, ticker)
    output_file      \* <portfolio>_with_fair_value.csv

matchVars == <<match_pc, rs_dtype, portfolio, fair_value, rels, matches,
               summary_cache, output_file>>

\* an exception leaving the function
Raise == [k |-> "raise", v |-> 0, s |-> <<>>]

\* value.strip().replace('%', '').replace(' ', '').replace(',', '.')
clean_relative_strike(text) ==
    replace(replace(replace(strip(text), "%", <<>>), " ", <<>>), ",", <<".">>)

\* mutant: the comma is not taken for a decimal separator
parse_relative_strike_no_comma(value) ==
    IF isna(value) THEN NaN
    ELSE IF value.k = "str"
    THEN LET v == replace(replace(strip(value.s), "%", <<>>), " ", <<>>)
         IN  IF CanFloat(v) THEN Num(FloatVal(v)) ELSE Raise
    ELSE Num(value.v)

\* parse_relative_strike: None (NaN here) for a NaN, the float of the cleaned
\* text, or float()'s ValueError
parse_relative_strike(value) ==
    IF isna(value) THEN NaN
    ELSE IF value.k = "str"
    THEN LET v == clean_relative_strike(value.s)
         IN  IF CanFloat(v) THEN Num(FloatVal(v)) ELSE Raise
    ELSE Num(value.v)

MaxPortfolioRows == 2

PortfolioRow(t, rs) == [ticker |-> t, relative_strike |-> rs]

\* relative_strike cells of an object column: "24,50%", "24.50%", "30",
\* " 20%", "60", "abc", and an empty cell
TextStrikeCells ==
    { Str(<<"2", "4", ",", "5", "0", "%">>),
      Str(<<"2", "4", ".", "5", "0", "%">>),
      Str(<<"3", "0">>),
      Str(<<" ", "2", "0", "%">>),
      Str(<<"6", "0">>),
      Str(<<"a", "b", "c">>),
      NaN }

\* relative_strike cells of a float64 column
FloatStrikeCells == { Num(F(24) + 50), Num(F(30)), Num(F(60)), NaN }

StrikeCells(dtype) == IF dtype = "object" THEN TextStrikeCells ELSE FloatStrikeCells

\* mutant: the relative strike is parsed before the summary is looked at
compute_fair_value_parse_first(none, summary_df, rel) ==
    IF rel = Raise THEN [none EXCEPT !.raised = TRUE]
    ELSE IF summary_df.is_none THEN none
    ELSE IF isna(rel) THEN none
    ELSE IF match_rows(summary_df.rows, rel.v, 1) = <<>> THEN [none EXCEPT !.rel = rel]
    ELSE [none EXCEPT
            !.rel = rel,
            !.match = match_rows(summary_df.rows, rel.v, 1),
            !.fair_value =
                first_match(summary_df.rows, match_rows(summary_df.rows, rel.v, 1))]

\* compute_fair_value once the summary is loaded and the rel parsed
compute_fair_value_body(none, summary_df, rel) ==
    IF summary_df.is_none THEN none
    ELSE IF rel = Raise THEN [none EXCEPT !.raised = TRUE]
    ELSE IF isna(rel) THEN none
    ELSE IF match_rows(summary_df.rows, rel.v, 1) = <<>> THEN [none EXCEPT !.rel = rel]
    ELSE [none EXCEPT
            !.rel = rel,
            !.match = match_rows(summary_df.rows, rel.v, 1),
            !.fair_value =
                first_match(summary_df.rows, match_rows(summary_df.rows, rel.v, 1))]

\* what compute_fair_value does with one row, given the cache
compute_fair_value_result(row, cache) ==
    LET cache2 == cache_after(cache, row.ticker)
    IN  compute_fair_value_body(
            [cache |-> cache2, raised |-> FALSE, fair_value |-> NaN,
             rel |-> NaN, match |-> <<>>],
            cache2[row.ticker],
            parse_relative_strike(row.relative_strike))

MatchInit ==
    /\ match_pc = "apply"
    /\ rs_dtype \in {"object", "float64"}
    /\ portfolio = <<>>
    /\ fair_value = <<>>
    /\ rels = <<>>
    /\ matches = <<>>
    /\ summary_cache = <<>>
    /\ output_file = NoFile

MatchIdle ==
    /\ match_pc = "idle"
    /\ rs_dtype = "object"
    /\ portfolio = <<>>
    /\ fair_value = <<>>
    /\ rels = <<>>
    /\ matches = <<>>
    /\ summary_cache = <<>>
    /\ output_file = NoFile

\* df.apply hands the next portfolio row to compute_fair_value
compute_fair_value(row) ==
    /\ match_pc = "apply"
    /\ Len(portfolio) < MaxPortfolioRows
    /\ \E r \in {compute_fair_value_result(row, summary_cache)} :
         /\ portfolio' = Append(portfolio, row)
         /\ summary_cache' = r.cache
         /\ disk_reads' = reads_after(disk_reads, summary_cache, r.cache)
         /\ IF r.raised
            THEN /\ match_pc' = "raised"
                 /\ UNCHANGED <<fair_value, rels, matches>>
            ELSE /\ fair_value' = Append(fair_value, r.fair_value)
                 /\ rels' = Append(rels, r.rel)
                 /\ matches' = Append(matches, r.match)
                 /\ UNCHANGED match_pc
    /\ UNCHANGED <<rs_dtype, output_file>>

\* df["fair_value"] = ...; df.to_csv(output_file)
save_with_fair_value ==
    /\ match_pc = "apply"
    /\ Len(portfolio) >= 1
    /\ output_file' =
         CsvFile({"ticker", "relative_strike", "fair_value"},
                 [i \in 1..Len(portfolio) |->
                    [ticker |-> portfolio[i].ticker,
                     relative_strike |-> portfolio[i].relative_strike,
                     fair_value |-> fair_value[i]]])
    /\ match_pc' = "done"
    /\ UNCHANGED <<rs_dtype, portfolio, fair_value, rels, matches, summary_cache,
                   disk_reads>>

(***************************************************************************)
(* basket_portfolio_add_fair_value_from_buckets.py                         *)
(***************************************************************************)
VARIABLES
    basket_pc,       \* add_max_tenor_and_fair_value: "apply" or "done"
    basket_file,     \* index of the CSV file process_all_csv is at
    basket_n,        \* the number of rows df.apply has handed to per_row
    basket_total,    \* the number of rows of all files handed to per_row so far
    basket_row,      \* the last of them
    basket_result,   \* what per_row returned for it
    basket_lookups,  \* per ticker of that row, what the loop body found
    basket_cache     \* ticker -> the summary cached for (run_date, ticker)

basketVars == <<basket_pc, basket_file, basket_n, basket_total, basket_row, basket_result, basket_lookups,
                basket_cache>>

\* str.split(sep) for a one-character sep
RECURSIVE split(_, _)
split(s, sep) ==
    LET d == find(s, sep)
    IN  IF d = 0 THEN <<s>>
        ELSE <<SubSeq(s, 1, d - 1)>> \o split(SubSeq(s, d + 1, Len(s)), sep)

\* sep.join(parts)
RECURSIVE join(_, _)
join(parts, sep) ==
    IF parts = <<>> THEN <<>>
    ELSE IF Len(parts) = 1 THEN parts[1]
    ELSE parts[1] \o <<sep>> \o join(Tail(parts), sep)

DigitChar(d) ==
    CASE d = 0 -> "0" [] d = 1 -> "1" [] d = 2 -> "2" [] d = 3 -> "3"
      [] d = 4 -> "4" [] d = 5 -> "5" [] d = 6 -> "6" [] d = 7 -> "7"
      [] d = 8 -> "8" [] d = 9 -> "9"

\* str(n) for an integer n >= 0
RECURSIVE NatToStr(_)
NatToStr(n) ==
    IF n < 10 THEN <<DigitChar(n)>>
    ELSE NatToStr(n \div 10) \o <<DigitChar(n % 10)>>

Abs(x) == IF x < 0 THEN 0 - x ELSE x

\* str(int(x)) for a float x that is_integer()
int_str(x) ==
    (IF x < 0 THEN <<"-">> ELSE <<>>) \o NatToStr(Abs(x) \div 100)

\* str(x) for a float x that is no integer: its shortest decimal form
float_str(x) ==
    LET a == Abs(x)
        fr == a % 100
    IN  (IF x < 0 THEN <<"-">> ELSE <<>>) \o NatToStr(a \div 100) \o <<".">>
          \o (IF fr % 10 = 0 THEN <<DigitChar(fr \div 10)>>
              ELSE <<DigitChar(fr \div 10), DigitChar(fr % 10)>>)

\* float(x).is_integer()
is_integer(x) == x % 100 = 0

\* parse_list_field: the non-empty stripped parts of str(value).split(",")
parse_list_field(value) ==
    IF isna(value) THEN <<>>
    ELSE LET parts == split(value.s, ",")
             stripped == [i \in 1..Len(parts) |-> strip(parts[i])]
         IN  SelectSeq(stripped, LAMBDA q : q # <<>>)

\* the index of the last occurrence of character c in s, 0 when there is none
RECURSIVE rfind(_, _)
rfind(s, c) ==
    IF s = <<>> THEN 0
    ELSE IF s[Len(s)] = c THEN Len(s)
    ELSE rfind(SubSeq(s, 1, Len(s) - 1), c)

\* mutant: the label is split at its last '-'
parse_bucket_midpoint_rsplit(bucket) ==
    IF isna(bucket) \/ bucket.k = "num" THEN NaN
    ELSE LET t == strip(bucket.s)
             d == rfind(t, "-")
             lo == SubSeq(t, 1, d - 1)
             hi == SubSeq(t, d + 1, Len(t))
         IN  IF d = 0 THEN NaN
             ELSE IF CanFloat(lo) /\ CanFloat(hi)
             THEN Num((FloatVal(lo) + FloatVal(hi)) \div 2)
             ELSE NaN

\* parse_bucket_midpoint: None (NaN here) for a NaN, a text without '-' or
\* with a part float() rejects; else (float(lo) + float(hi)) / 2.  The text
\* of a number holds a '-' only as its sign, and then lo is empty.
parse_bucket_midpoint(bucket) ==
    IF isna(bucket) \/ bucket.k = "num" THEN NaN
    ELSE LET t == strip(bucket.s)
             d == find(t, "-")
             lo == SubSeq(t, 1, d - 1)
             hi == SubSeq(t, d + 1, Len(t))
         IN  IF d = 0 THEN NaN
             ELSE IF CanFloat(lo) /\ CanFloat(hi)
             THEN Num((FloatVal(lo) + FloatVal(hi)) \div 2)
             ELSE NaN

\* mutant: the label is "2" only for a tenor strictly below the maximum
fair_value_label_strict(tenor_days, max_tenor) ==
    IF tenor_days < max_tenor THEN <<"2">> ELSE <<"3">>

\* "2" if tenor_days <= max_tenor else "3"
fair_value_label(tenor_days, max_tenor) ==
    IF tenor_days <= max_tenor THEN <<"2">> ELSE <<"3">>

\* str(int(max_tenor)) if float(max_tenor).is_integer() else str(max_tenor)
max_tenor_text(max_tenor) ==
    IF is_integer(max_tenor) THEN int_str(max_tenor) ELSE float_str(max_tenor)

\* the loop body of per_row for ticker t once the summary is loaded
lookup_in(empty, summary, match, tenor_days) ==
    IF summary.is_none THEN empty
    ELSE IF match = <<>> THEN [empty EXCEPT !.masked = TRUE]
    ELSE IF isna(first_match(summary.rows, match))
    THEN [empty EXCEPT !.masked = TRUE, !.match = match]
    ELSE [empty EXCEPT !.masked = TRUE, !.match = match,
            !.max_tenor = max_tenor_text(first_match(summary.rows, match).v),
            !.fair_value =
                fair_value_label(tenor_days.v, first_match(summary.rows, match).v)]

lookup_cached(t, rel, tenor_days, cache2) ==
    lookup_in([ticker |-> t, max_tenor |-> <<>>, fair_value |-> <<>>,
               cache |-> cache2, masked |-> FALSE, match |-> <<>>],
              cache2[t], match_rows(cache2[t].rows, rel.v, 1), tenor_days)

\* one pass of the loop body of per_row for ticker t
ticker_lookup(t, rel, tenor_days, cache) ==
    IF isna(rel) \/ isna(tenor_days)
    THEN [ticker |-> t, max_tenor |-> <<>>, fair_value |-> <<>>,
          cache |-> cache, masked |-> FALSE, match |-> <<>>]
    ELSE lookup_cached(t, rel, tenor_days, cache_after(cache, t))

\* mutant: a ticker without a value is left out of the lists
RECURSIVE ticker_loop_skip_empty(_, _, _, _)
ticker_loop_skip_empty(ts, rel, tenor_days, cache) ==
    IF ts = <<>> THEN <<>>
    ELSE LET rest(l) == (IF l.max_tenor = <<>> THEN <<>> ELSE <<l>>)
                          \o ticker_loop_skip_empty(Tail(ts), rel, tenor_days, l.cache)
         IN  rest(ticker_lookup(Head(ts), rel, tenor_days, cache))

\* the loop over the tickers of one row, the cache passed along
RECURSIVE ticker_loop(_, _, _, _)
ticker_loop(ts, rel, tenor_days, cache) ==
    IF ts = <<>> THEN <<>>
    ELSE LET rest(l) == <<l>> \o ticker_loop(Tail(ts), rel, tenor_days, l.cache)
         IN  rest(ticker_lookup(Head(ts), rel, tenor_days, cache))

\* what per_row returns after its loop found ls
per_row_return(ls, cache) ==
    [max_tenor_for_strike |-> join([i \in 1..Len(ls) |-> ls[i].max_tenor], ","),
     fair_value |-> join([i \in 1..Len(ls) |-> ls[i].fair_value], ","),
     lookups |-> [i \in 1..Len(ls) |->
                    [ticker |-> ls[i].ticker, masked |-> ls[i].masked,
                     match |-> ls[i].match]],
     cache |-> IF ls = <<>> THEN cache ELSE ls[Len(ls)].cache]

BasketRow(bt, sb, td) == [baskettickers |-> bt, strike_bucket |-> sb, tenor_days |-> td]

\* baskettickers cells: "ABC,DEF", "DEF, ABC", "ABC,,XYZ", "ABC", empty
BasketTickerCells ==
    { Str(<<"A", "B", "C", ",", "D", "E", "F">>),
      Str(<<"D", "E", "F", ",", " ", "A", "B", "C">>),
      Str(<<"A", "B", "C", ",", ",", "X", "Y", "Z">>),
      Str(<<"A", "B", "C">>),
      NaN }

\* strike_bucket cells: "20-30", "20-40", "60-80", "30-50", "20-x", "-5-10",
\* "25", empty
StrikeBucketCells ==
    { Str(<<"2", "0", "-", "3", "0">>),
      Str(<<"2", "0", "-", "4", "0">>),
      Str(<<"6", "0", "-", "8", "0">>),
      Str(<<"3", "0", "-", "5", "0">>),
      Str(<<"2", "0", "-", "x">>),
      Str(<<"-", "5", "-", "1", "0">>),
      Str(<<"2", "5">>),
      NaN }

\* tenor_days as compute_tenor_days left it
TenorDaysCells == { NaN, Num(F(45)), Num(F(60)) }

\* parse_list_field and parse_bucket_midpoint on the cells above, computed once
tickers_of == [c \in BasketTickerCells |-> parse_list_field(c)]
midpoint_of == [c \in StrikeBucketCells |-> parse_bucket_midpoint(c)]

\* per_row: the two comma-joined lists, with what the loop found
per_row(row, cache) ==
    per_row_return(ticker_loop(tickers_of[row.baskettickers],
                               midpoint_of[row.strike_bucket],
                               row.tenor_days, cache),
                   cache)

MaxBasketRows == 2

BasketRows ==
    { BasketRow(bt, sb, td) :
        bt \in BasketTickerCells, sb \in StrikeBucketCells, td \in TenorDaysCells }

NoRow == BasketRow(NaN, NaN, NaN)

NoResult == [max_tenor_for_strike |-> <<>>, fair_value |-> <<>>]

BasketInit ==
    /\ basket_pc = "apply"
    /\ basket_file = 1
    /\ basket_n = 0
    /\ basket_total = 0
    /\ basket_row = NoRow
    /\ basket_result = NoResult
    /\ basket_lookups = <<>>
    /\ basket_cache = <<>>

BasketIdle ==
    /\ basket_pc = "idle"
    /\ basket_file = 1
    /\ basket_n = 0
    /\ basket_total = 0
    /\ basket_row = NoRow
    /\ basket_result = NoResult
    /\ basket_lookups = <<>>
    /\ basket_cache = <<>>

\* df.apply hands the next row of the basket portfolio to per_row
basket_per_row(row) ==
    /\ basket_pc = "apply"
    /\ basket_total < MaxBasketRows
    /\ \E r \in {per_row(row, basket_cache)} :
         /\ basket_result' = [max_tenor_for_strike |-> r.max_tenor_for_strike,
                              fair_value |-> r.fair_value]
         /\ basket_lookups' = r.lookups
         /\ basket_cache' = r.cache
         /\ disk_reads' = reads_after(disk_reads, basket_cache, r.cache)
    /\ basket_row' = row
    /\ basket_n' = basket_n + 1
    /\ basket_total' = basket_total + 1
    /\ UNCHANGED <<basket_pc, basket_file>>

\* the last row is done: the two columns are set and df returned
basket_columns_set ==
    /\ basket_pc = "apply"
    /\ basket_n >= 1
    /\ basket_pc' = "done"
    /\ UNCHANGED <<basket_file, basket_n, basket_total, basket_row, basket_result,
                   basket_lookups, basket_cache, disk_reads>>

MaxBasketFiles == 2

\* process_all_csv goes on to the next CSV file of the input directory:
\* add_max_tenor_and_fair_value is called again and makes a new cache
basket_next_file ==
    /\ basket_pc = "done"
    /\ basket_file < MaxBasketFiles
    /\ basket_file' = basket_file + 1
    /\ basket_pc' = "apply"
    /\ basket_n' = 0
    /\ basket_row' = NoRow
    /\ basket_result' = NoResult
    /\ basket_lookups' = <<>>
    /\ basket_cache' = <<>>
    /\ UNCHANGED <<basket_total, disk_reads>>

(***************************************************************************)
(* add_tenor_days.py, add_max_tenor.py, add_relative_strike.py: the three  *)
(* enrichers.  Each run walks config["tickers"] and rewrites the CSV file  *)
(* under outdir/<ticker>/ (one file per ticker here).  A row of such a     *)
(* file is a record with one cell per column the scripts know; the cell of *)
(* a column the file does not have is NaN and `columns` says which exist.  *)
(* An instant is a record [k, day, tick]: the calendar-day number and the  *)
(* time of day in ticks; NaT has k = "nat".                                *)
(***************************************************************************)
VARIABLES
    enrich_pc,    \* run(): "start", "loop", "called" (after the call for a ticker
                  \* returned), "raised" (an exception left run()), "fatal" or "done"
    enrich_i,     \* index in tickers of the next ticker of run()'s loop
    snap_dt,      \* the snapshot instant run() resolved
    spot_price,   \* the spot price resolved for the current ticker
    csv_before,   \* the current ticker's CSV file before the call
    csv_file,     \* the current ticker's CSV file after the call
    enrich_runs,  \* how many times the current file has been written by the script
    enrich_log    \* per ticker handled so far, what became of it

enrichVars == <<enrich_pc, enrich_i, snap_dt, spot_price, csv_before, csv_file,
                enrich_runs, enrich_log>>

Inf == [k |-> "inf", v |-> 0, s |-> <<>>]

Timestamp(d, t) == [k |-> "ts", day |-> d, tick |-> t]
NaT == [k |-> "nat", day |-> 0, tick |-> 0]

\* the resolution of the time of day
TicksPerDay == 4

\* days of 2025 before each month, and in each month
DaysBefore == <<0, 31, 59, 90, 120, 151, 181, 212, 243, 273, 304, 334>>
DaysIn == <<31, 28, 31, 30, 31, 30, 31, 31, 30, 31, 30, 31>>

\* the calendar-day number of a date of 2025 (1 is 2025-01-01)
toordinal(m, d) == DaysBefore[m] + d

\* datetime.strptime(s, "%Y-%m-%d") for the year 2025: the day number, 0 on
\* ValueError
strptime_ymd(s) ==
    IF /\ Len(s) = 10
       /\ s[5] = "-" /\ s[8] = "-"
       /\ SubSeq(s, 1, 4) = <<"2", "0", "2", "5">>
       /\ AllDigits(SubSeq(s, 6, 7)) /\ AllDigits(SubSeq(s, 9, 10))
       /\ DigitsVal(SubSeq(s, 6, 7)) \in 1..12
    THEN (IF DigitsVal(SubSeq(s, 9, 10)) \in 1..DaysIn[DigitsVal(SubSeq(s, 6, 7))]
          THEN toordinal(DigitsVal(SubSeq(s, 6, 7)), DigitsVal(SubSeq(s, 9, 10)))
          ELSE 0)
    ELSE 0

\* datetime.strptime(s, "%d-%m-%Y") for the year 2025
strptime_dmy(s) ==
    IF /\ Len(s) = 10
       /\ s[3] = "-" /\ s[6] = "-"
       /\ SubSeq(s, 7, 10) = <<"2", "0", "2", "5">>
       /\ AllDigits(SubSeq(s, 1, 2)) /\ AllDigits(SubSeq(s, 4, 5))
       /\ DigitsVal(SubSeq(s, 4, 5)) \in 1..12
    THEN (IF DigitsVal(SubSeq(s, 1, 2)) \in 1..DaysIn[DigitsVal(SubSeq(s, 4, 5))]
          THEN toordinal(DigitsVal(SubSeq(s, 4, 5)), DigitsVal(SubSeq(s, 1, 2)))
          ELSE 0)
    ELSE 0

\* helper.parse_date: midnight UTC of the date, NaT standing for ValueError
parse_date(s) ==
    IF strptime_ymd(strip(s)) # 0 THEN Timestamp(strptime_ymd(strip(s)), 0)
    ELSE IF strptime_dmy(strip(s)) # 0 THEN Timestamp(strptime_dmy(strip(s)), 0)
    ELSE NaT

\* pd.to_datetime(cell, errors="coerce", utc=True) on one expiration cell
to_datetime(c) ==
    IF c.k = "str" /\ strptime_ymd(strip(c.s)) # 0
    THEN Timestamp(strptime_ymd(strip(c.s)), 0)
    ELSE NaT

\* two decimal digits
two_digits(n) == <<DigitChar(n \div 10), DigitChar(n % 10)>>

\* date.isoformat() of a day number of 2025
isoformat(day) ==
    LET m == CHOOSE x \in 1..12 : DaysBefore[x] < day /\ day <= DaysBefore[x] + DaysIn[x]
    IN  <<"2", "0", "2", "5", "-">> \o two_digits(m) \o <<"-">>
          \o two_digits(day - DaysBefore[m])

\* (exp_ts - snap_ts).dt.days: the whole days of the difference, rounded down
timedelta_days(exp_ts, snap_ts) ==
    IF exp_ts.k = "nat" THEN NaN
    ELSE Num(F(((exp_ts.day * TicksPerDay + exp_ts.tick)
                  - (snap_ts.day * TicksPerDay + snap_ts.tick)) \div TicksPerDay))

EnrichRow(st, ex, td) ==
    [strike |-> st, expiration |-> ex, tenor_days |-> td,
     max_tenor_for_strike |-> NaN, spot_price |-> NaN, relative_strike |-> NaN,
     snap_date |-> NaN]

MaxCsvRows == 2

Text_2025_01_17 == <<"2", "0", "2", "5", "-", "0", "1", "-", "1", "7">>
Text_2025_01_03 == <<"2", "0", "2", "5", "-", "0", "1", "-", "0", "3">>
Text_2025_02_01 == <<"2", "0", "2", "5", "-", "0", "2", "-", "0", "1">>
Text_2025_01_10 == <<"2", "0", "2", "5", "-", "0", "1", "-", "1", "0">>
Text_10_01_2025 == <<"1", "0", "-", "0", "1", "-", "2", "0", "2", "5">>

CsvExpirationCells ==
    { Str(Text_2025_01_17), Str(Text_2025_01_03), Str(Text_2025_02_01),
      Str(<<"n", "/", "a">>), NaN }
CsvStrikeCells == {NaN, Num(F(100)), Num(F(200))}
CsvTenorCells == {NaN, Num(F(10)), Num(F(30))}
CsvSignedStrikeCells == {NaN, Num(F(100)), Num(0 - F(50)), Num(0), Str(<<"x">>)}

\* the rows a file of the given columns can hold
CsvRows(cols, strikes, expirations, tenors) ==
    { EnrichRow(st, ex, td) :
        st \in (IF "strike" \in cols THEN strikes ELSE {NaN}),
        ex \in (IF "expiration" \in cols THEN expirations ELSE {NaN}),
        td \in (IF "tenor_days" \in cols THEN tenors ELSE {NaN}) }

CsvFilesOf(colsets, strikes, expirations, tenors) ==
    UNION { { CsvFile(cols, rows) :
                rows \in SeqsUpTo(CsvRows(cols, strikes, expirations, tenors),
                                  MaxCsvRows) } : cols \in colsets }

\* a file of zero bytes: pd.read_csv raises EmptyDataError
EmptyCsv == CsvFile({}, <<>>)

\* the files under outdir/<ticker>/ a run of the script can find
CsvFiles(s) ==
    {EmptyCsv} \cup
    (CASE s = "max_tenor" ->
            CsvFilesOf({{"strike", "tenor_days"}, {"strike"}, {"tenor_days"}},
                       CsvStrikeCells, {NaN}, CsvTenorCells)
       [] s = "tenor" ->
            CsvFilesOf({{"expiration"}, {"strike"}},
                       {Num(F(100))}, CsvExpirationCells, {NaN})
       [] s = "relative_strike" ->
            CsvFilesOf({{"strike"}, {"expiration"}},
                       CsvSignedStrikeCells, {Str(Text_2025_01_17)}, {NaN}))

\* pd.read_csv raises
read_csv_raises(f) == f.columns = {}

\* what a call for one file did: the file afterwards, whether to_csv wrote
\* it, whether an exception left the call
Outcome(f, w, r) == [file |-> f, wrote |-> w, raised |-> r]

\* mutant: df.to_csv(path) without index=False adds the index as a column
to_csv_with_index(cols, rows) ==
    CsvFile(cols \cup {IF "Unnamed: 0" \in cols THEN "Unnamed: 0.1" ELSE "Unnamed: 0"},
            rows)

\* df.to_csv(csv_path, index=False)
to_csv(cols, rows) == CsvFile(cols, rows)

\* mutant: the maximum of the whole column, whatever the strike
transform_max_ungrouped(rows, i) ==
    LET vals == { rows[j].tenor_days.v :
                    j \in { j \in 1..Len(rows) : ~isna(rows[j].tenor_days) } }
    IN  IF isna(rows[i].strike) \/ vals = {} THEN NaN
        ELSE Num(CHOOSE m \in vals : \A v \in vals : v <= m)

\* df.groupby("strike")["tenor_days"].transform("max") at row i: groupby
\* drops the rows whose key is NaN, max skips NaN values
transform_max(rows, i) ==
    LET vals == { rows[j].tenor_days.v :
                    j \in { j \in 1..Len(rows) :
                              /\ rows[j].strike = rows[i].strike
                              /\ ~isna(rows[j].tenor_days) } }
    IN  IF isna(rows[i].strike) \/ vals = {} THEN NaN
        ELSE Num(CHOOSE m \in vals : \A v \in vals : v <= m)

\* mutant: a file without the strike column is written back all the same
calculate_max_tenor_writes_back(f) ==
    IF read_csv_raises(f) THEN Outcome(f, FALSE, TRUE)
    ELSE IF "tenor_days" \notin f.columns THEN Outcome(f, FALSE, FALSE)
    ELSE Outcome(to_csv(f.columns \cup {"max_tenor_for_strike"}, f.rows), TRUE, FALSE)

calculate_max_tenor(f) ==
    IF read_csv_raises(f) THEN Outcome(f, FALSE, TRUE)
    ELSE IF "tenor_days" \notin f.columns THEN Outcome(f, FALSE, FALSE)
    ELSE IF "strike" \notin f.columns THEN Outcome(f, FALSE, FALSE)
    ELSE Outcome(to_csv(f.columns \cup {"max_tenor_for_strike"},
                        [i \in 1..Len(f.rows) |->
                           [f.rows[i] EXCEPT
                              !.max_tenor_for_strike = transform_max(f.rows, i)]]),
                 TRUE, FALSE)

add_tenor_to_file(f, snap) ==
    IF read_csv_raises(f) THEN Outcome(f, FALSE, TRUE)
    ELSE IF "expiration" \notin f.columns THEN Outcome(f, FALSE, FALSE)
    ELSE Outcome(to_csv(f.columns \cup {"tenor_days", "snap_date"},
                        [i \in 1..Len(f.rows) |->
                           [f.rows[i] EXCEPT
                              !.tenor_days =
                                  timedelta_days(to_datetime(f.rows[i].expiration), snap),
                              !.snap_date = Str(isoformat(snap.day))]]),
                 TRUE, FALSE)

\* mutant: the quotient keeps its sign
relative_strike_signed(strike, spot) ==
    IF isna(strike) THEN NaN
    ELSE IF spot = 0 THEN (IF strike.v = 0 THEN NaN ELSE Inf)
    ELSE IF (strike.v < 0) # (spot < 0)
         THEN Num(0 - ((Abs(strike.v) * 10000) \div Abs(spot)))
         ELSE Num((Abs(strike.v) * 10000) \div Abs(spot))

\* (strike / spot_price).abs() * 100.0 on one cell of a numeric column, cut
\* to hundredths; float division by zero gives inf, 0/0 gives NaN
relative_strike_of(strike, spot) ==
    IF isna(strike) THEN NaN
    ELSE IF spot = 0 THEN (IF strike.v = 0 THEN NaN ELSE Inf)
    ELSE Num((Abs(strike.v) * 10000) \div Abs(spot))

\* a text in the strike column makes it an object column: the division
\* raises TypeError
add_relative_strike_to_file(f, spot) ==
    IF read_csv_raises(f) THEN Outcome(f, FALSE, TRUE)
    ELSE IF "strike" \notin f.columns THEN Outcome(f, FALSE, FALSE)
    ELSE IF \E i \in 1..Len(f.rows) : f.rows[i].strike.k = "str"
         THEN Outcome(f, FALSE, TRUE)
    ELSE Outcome(to_csv(f.columns \cup {"spot_price", "relative_strike"},
                        [i \in 1..Len(f.rows) |->
                           [f.rows[i] EXCEPT
                              !.spot_price = Num(spot),
                              !.relative_strike =
                                  relative_strike_of(f.rows[i].strike, spot)]]),
                 TRUE, FALSE)

\* config["snap_date"]: absent, in either format, or no date
SnapDateStrs == {NaN, Str(Text_2025_01_10), Str(Text_10_01_2025),
                 Str(<<"s", "o", "o", "n">>)}

\* datetime.utcnow() during the run: 2025-01-10 at any time of day
UtcNow == { Timestamp(toordinal(1, 10), t) : t \in 0..(TicksPerDay - 1) }

\* what resolve_spot_price_for_ticker returns (an override or the fetched
\* price), NaN standing for an exception of the fetch
SpotPrices == {NaN, Num(0), Num(F(200)), Num(F(3))}

\* the call run() makes for one file
enrich_file(s, f, snap, spot) ==
    CASE s = "max_tenor" -> calculate_max_tenor(f)
      [] s = "tenor" -> add_tenor_to_file(f, snap)
      [] s = "relative_strike" -> add_relative_strike_to_file(f, spot.v)

log_tag(o) == IF o.raised THEN "raised" ELSE IF o.wrote THEN "written" ELSE "skipped"

EnrichInit ==
    /\ enrich_pc = "start"
    /\ enrich_i = 1
    /\ snap_dt = NaT
    /\ spot_price = NaN
    /\ csv_before = NoFile
    /\ csv_file = NoFile
    /\ enrich_runs = 0
    /\ enrich_log = <<>>

EnrichIdle ==
    /\ enrich_pc = "idle"
    /\ enrich_i = 1
    /\ snap_dt = NaT
    /\ spot_price = NaN
    /\ csv_before = NoFile
    /\ csv_file = NoFile
    /\ enrich_runs = 0
    /\ enrich_log = <<>>

\* run() up to its loop: the snapshot date is resolved (add_max_tenor has none)
resolve_snap_date ==
    /\ enrich_pc = "start"
    /\ IF script = "max_tenor"
       THEN enrich_pc' = "loop" /\ snap_dt' = snap_dt
       ELSE \E s \in SnapDateStrs :
              IF isna(s)
              THEN \E now \in UtcNow : snap_dt' = now /\ enrich_pc' = "loop"
              ELSE /\ snap_dt' = parse_date(s.s)
                   /\ enrich_pc' = IF parse_date(s.s) = NaT THEN "fatal" ELSE "loop"
    /\ UNCHANGED <<enrich_i, spot_price, csv_before, csv_file, enrich_runs, enrich_log>>

\* the loop body finds no directory or no CSV file for the ticker, or no
\* spot price (add_relative_strike only): continue
skip_ticker(ticker) ==
    /\ enrich_pc = "loop"
    /\ enrich_i <= Len(tickers)
    /\ ticker = tickers[enrich_i]
    /\ \E why \in {"no_dir", "no_csv"} \cup
                  (IF script = "relative_strike" THEN {"no_spot"} ELSE {}) :
         enrich_log' = Append(enrich_log, why)
    /\ enrich_pc' = "called"
    /\ UNCHANGED <<enrich_i, snap_dt, spot_price, csv_before, csv_file, enrich_runs>>

\* the loop body calls the script's function for the ticker's CSV file
enrich_ticker(ticker) ==
    /\ enrich_pc = "loop"
    /\ enrich_i <= Len(tickers)
    /\ ticker = tickers[enrich_i]
    /\ \E f \in CsvFiles(script) :
       \E spot \in (IF script = "relative_strike" THEN SpotPrices \ {NaN} ELSE {NaN}) :
       \E o \in {enrich_file(script, f, snap_dt, spot)} :
         /\ spot_price' = spot
         /\ csv_before' = f
         /\ csv_file' = o.file
         /\ enrich_runs' = IF o.wrote THEN 1 ELSE 0
         /\ enrich_log' = Append(enrich_log, log_tag(o))
         /\ enrich_pc' = IF o.raised THEN "raised" ELSE "called"
    /\ UNCHANGED <<enrich_i, snap_dt>>

MaxRuns == 2

\* a later run of add_max_tenor finds the file this run wrote
calculate_max_tenor_again ==
    /\ enrich_pc = "called"
    /\ script = "max_tenor"
    /\ enrich_runs >= 1
    /\ enrich_runs < MaxRuns
    /\ \E o \in {calculate_max_tenor(csv_file)} :
         /\ csv_before' = csv_file
         /\ csv_file' = o.file
    /\ enrich_runs' = enrich_runs + 1
    /\ UNCHANGED <<enrich_pc, enrich_i, snap_dt, spot_price, enrich_log>>

\* run()'s for loop moves on to the next ticker; the call's locals are gone
enrich_next_ticker ==
    /\ enrich_pc = "called"
    /\ enrich_i' = enrich_i + 1
    /\ enrich_pc' = "loop"
    /\ spot_price' = NaN
    /\ csv_before' = NoFile
    /\ csv_file' = NoFile
    /\ enrich_runs' = 0
    /\ UNCHANGED <<snap_dt, enrich_log>>

enrich_completed ==
    /\ enrich_pc = "loop"
    /\ enrich_i > Len(tickers)
    /\ enrich_pc' = "done"
    /\ UNCHANGED <<enrich_i, snap_dt, spot_price, csv_before, csv_file, enrich_runs,
                   enrich_log>>

(***************************************************************************)
(* basket_run_pipeline.py: the orchestrator.  main() resolves the run date *)
(* and runs the scripts one after the other with run_cmd, moving csv_out   *)
(* into the dated directory before the basket matcher.  The directory tree *)
(* under csv_out is a set of nodes: a directory is a node without a name,  *)
(* a file a node with the directory it is in, its name and the number of   *)
(* the pipeline run that wrote it.  Directory and ticker names are texts.  *)
(* The contents of <ticker>_options_all_expirations_filtered.csv while it  *)
(* is under csv_out/<ticker>/ are kept in options_file.                    *)
(***************************************************************************)
VARIABLES
    pipe_pc,        \* main(): "start", "step" (about to run Steps[pipe_step]),
                    \* "exited" (sys.exit in run_cmd), "raised" (an exception left
                    \* main), "done" or "idle"
    pipe_step,      \* index in Steps of the next step
    pipe_exit,      \* the orchestrator's exit code, -1 while it runs
    pipe_trace,     \* the steps started in this run, each with its return code
    pipe_run,       \* the number of this pipeline run
    pipe_tickers,   \* config["tickers"]
    valuation_date, \* config.get("valuation_date")
    run_dates,      \* what each script's resolve_run_date gave in this run
    csv_out,        \* the directory tree under csv_out
    options_file,   \* per ticker, the contents of its options file under csv_out
    pipe_spots,     \* per ticker, the spot price add_relative_strike resolved
    pipe_agg_log,   \* per ticker, what aggregate_for_ticker did in this run
    basket_seen     \* per ticker, the run that wrote the summary load_summary found

pipeVars == <<pipe_pc, pipe_step, pipe_exit, pipe_trace, pipe_run, pipe_tickers,
              valuation_date, run_dates, csv_out, options_file, pipe_spots,
              pipe_agg_log, basket_seen>>

\* mutant: add_max_tenor is run before add_tenor_days
Steps_max_tenor_first ==
    << "options_to_csv", "add_max_tenor", "add_tenor_days", "add_relative_strike",
       "aggregate_strike_buckets", "move_csv_out_to_enriched",
       "basket_portfolio_add_fair_value_from_buckets" >>

\* the scripts main() runs, in the order of its run_cmd calls, with the move
Steps ==
    << "options_to_csv", "add_tenor_days", "add_max_tenor", "add_relative_strike",
       "aggregate_strike_buckets", "move_csv_out_to_enriched",
       "basket_portfolio_add_fair_value_from_buckets" >>

\* the return codes of a child process
ExitCodes == {0, 1, 2}

Name_enriched == <<"e", "n", "r", "i", "c", "h", "e", "d">>
T_7203 == <<"7", "2", "0", "3">>

\* config["tickers"]
TickerLists == { <<T_ABC>>, <<T_7203>>, <<Name_enriched>> }

\* a yaml date
DateObject(day) == [k |-> "date", v |-> day, s |-> <<>>]

\* config.get("valuation_date"): absent, empty, a date, an ISO text, a text in
\* another date format, a text that is no date
ValuationDates ==
    { NaN, Str(<<>>), DateObject(toordinal(1, 3)), Str(Text_2025_01_03),
      Str(Text_10_01_2025), Str(<<"s", "o", "o", "n">>) }

\* date.today() during the runs: 2025-01-10
Today == toordinal(1, 10)

Resolved(day) == [k |-> "date", day |-> day]
Exit1 == [k |-> "exit", day |-> 0]
Raised == [k |-> "raise", day |-> 0]
Unset == [k |-> "unset", day |-> 0]

\* basket_run_pipeline.resolve_run_date
resolve_run_date(raw, now) ==
    IF raw.k = "nan" THEN Resolved(now)
    ELSE IF raw.k = "str" /\ strip(raw.s) = <<>> THEN Resolved(now)
    ELSE IF raw.k = "date" THEN Resolved(raw.v)
    ELSE IF raw.k = "str"
         THEN (IF strptime_ymd(raw.s) # 0 THEN Resolved(strptime_ymd(raw.s))
               ELSE Resolved(now))
    ELSE Resolved(now)

\* add_fair_value_from_buckets.parse_config_date
parse_config_date(value) ==
    IF value.k = "date" THEN Resolved(value.v)
    ELSE IF value.k = "str"
         THEN (IF strptime_ymd(value.s) # 0 THEN Resolved(strptime_ymd(value.s))
               ELSE Exit1)
    ELSE Exit1

\* add_fair_value_from_buckets.resolve_run_date
single_resolve_run_date(raw, now) ==
    IF raw.k = "nan" THEN Resolved(now)
    ELSE IF raw.k = "str" /\ strip(raw.s) = <<>> THEN Resolved(now)
    ELSE parse_config_date(raw)

\* a text "%m-%d-%Y" of the year 2025: the day number, 0 when it is none
strptime_mdy(s) ==
    IF /\ Len(s) = 10
       /\ s[3] = "-" /\ s[6] = "-"
       /\ SubSeq(s, 7, 10) = <<"2", "0", "2", "5">>
       /\ AllDigits(SubSeq(s, 1, 2)) /\ AllDigits(SubSeq(s, 4, 5))
       /\ DigitsVal(SubSeq(s, 1, 2)) \in 1..12
    THEN (IF DigitsVal(SubSeq(s, 4, 5)) \in 1..DaysIn[DigitsVal(SubSeq(s, 1, 2))]
          THEN toordinal(DigitsVal(SubSeq(s, 1, 2)), DigitsVal(SubSeq(s, 4, 5)))
          ELSE 0)
    ELSE 0

\* pd.to_datetime(raw).date(): pandas takes an ISO text as it is and reads
\* any other text with the month first, then with the day first; a text it
\* cannot read raises
pd_to_datetime(raw) ==
    IF raw.k = "date" THEN Resolved(raw.v)
    ELSE IF raw.k # "str" THEN Raised
    ELSE IF strptime_ymd(strip(raw.s)) # 0 THEN Resolved(strptime_ymd(strip(raw.s)))
    ELSE IF strptime_mdy(strip(raw.s)) # 0 THEN Resolved(strptime_mdy(strip(raw.s)))
    ELSE IF strptime_dmy(strip(raw.s)) # 0 THEN Resolved(strptime_dmy(strip(raw.s)))
    ELSE Raised

\* basket_portfolio_add_fair_value_from_buckets.resolve_run_date
basket_resolve_run_date(raw, now) ==
    IF raw.k = "nan" \/ (raw.k = "str" /\ strip(raw.s) = <<>>) THEN Resolved(now)
    ELSE pd_to_datetime(raw)

\* the month of a day number of 2025
month_of(day) ==
    CHOOSE m \in 1..12 : DaysBefore[m] < day /\ day <= DaysBefore[m] + DaysIn[m]

\* csv_out / YYYY / MM / DD / "enriched", relative to csv_out
dest_root_of(day) ==
    << <<"2", "0", "2", "5">>, two_digits(month_of(day)),
       two_digits(day - DaysBefore[month_of(day)]), Name_enriched >>

NoName == [ticker |-> <<>>, suffix |-> ""]
options_name(t) == [ticker |-> t, suffix |-> "_options_all_expirations_filtered.csv"]
summary_name(t) == [ticker |-> t, suffix |-> "_strike_buckets_summary.csv"]

DirNode(p) == [dir |-> p, name |-> NoName, run |-> 0]
FileNode(p, nm, r) == [dir |-> p, name |-> nm, run |-> r]

\* Path.is_dir / os.path.isdir
is_dir(tree, p) == DirNode(p) \in tree

\* Path.exists of a file
file_exists(tree, p, nm) == \E n \in tree : n.dir = p /\ n.name = nm

\* the node is the directory p or lies under it
under(n, p) == Len(n.dir) >= Len(p) /\ SubSeq(n.dir, 1, Len(p)) = p

\* Path.mkdir(parents=True, exist_ok=True)
mkdir_parents(tree, p) == tree \cup { DirNode(SubSeq(p, 1, k)) : k \in 0..Len(p) }

\* a file is written: it replaces the file of that name
write_file(tree, node) ==
    { n \in tree : ~(n.dir = node.dir /\ n.name = node.name) } \cup {node}

\* os.rename of the directory src to the path dst, which does not exist
rename(tree, src, dst) ==
    { IF under(n, src)
      THEN [n EXCEPT !.dir = dst \o SubSeq(n.dir, Len(src) + 1, Len(n.dir))]
      ELSE n : n \in tree }

\* shutil.move(src, dst) of a directory: into dst when dst is a directory,
\* shutil.Error when dst already holds an entry of that name
shutil_move(tree, src, dst) ==
    IF is_dir(tree, dst)
    THEN (IF is_dir(tree, dst \o <<src[Len(src)]>>)
          THEN [tree |-> tree, raised |-> TRUE]
          ELSE [tree |-> rename(tree, src, dst \o <<src[Len(src)]>>),
                raised |-> FALSE])
    ELSE [tree |-> rename(tree, src, dst), raised |-> FALSE]

\* the names csv_root.iterdir() yields
children(tree) == { n.dir[1] : n \in { n \in tree : Len(n.dir) >= 1 } }

\* the orders iterdir() can yield them in
Orders(S) ==
    { q \in [1..Cardinality(S) -> S] :
        \A i, j \in 1..Cardinality(S) : q[i] = q[j] => i = j }

\* the children the loop of move_csv_out_to_enriched passes over
is_skipped(tree, child) ==
    \/ child = Name_enriched
    \/ is_dir(tree, <<child>>) /\ AllDigits(child) /\ Len(child) = 4

\* the loop of move_csv_out_to_enriched over the children still to move
RECURSIVE move_children(_, _, _)
move_children(tree, order, dest) ==
    IF order = <<>> THEN [tree |-> tree, raised |-> FALSE]
    ELSE IF is_skipped(tree, Head(order)) THEN move_children(tree, Tail(order), dest)
    ELSE IF shutil_move(tree, <<Head(order)>>, dest \o <<Head(order)>>).raised
         THEN [tree |-> tree, raised |-> TRUE]
    ELSE move_children(shutil_move(tree, <<Head(order)>>, dest \o <<Head(order)>>).tree,
                       Tail(order), dest)

\* the orders of the children once dest_root is made
move_orders(tree, day) == Orders(children(mkdir_parents(tree, dest_root_of(day))))

move_csv_out_to_enriched(tree, day, order) ==
    IF ~is_dir(tree, <<>>) THEN [tree |-> tree, raised |-> FALSE]
    ELSE move_children(mkdir_parents(tree, dest_root_of(day)), order, dest_root_of(day))

\* how many rows a downloaded file has at most
MaxDownloadRows == 1

\* what options_to_csv writes for a ticker: every file has the columns of
\* YAHOO_COL_ORDER, expiration and strike among them
DownloadedFiles ==
    { CsvFile({"expiration", "strike"}, rows) :
        rows \in SeqsUpTo({ EnrichRow(Num(F(100)), ex, NaN) :
                              ex \in {Str(Text_2025_01_17), Str(<<"n", "/", "a">>)} },
                          MaxDownloadRows) }

\* options_to_csv.run over the tickers: the ticker directory is made, and the
\* file written unless the ticker has no expirations or no data (NoFile)
RECURSIVE download_tree(_, _, _, _, _)
download_tree(tree, ts, got, r, i) ==
    IF i > Len(ts) THEN tree
    ELSE download_tree(
           IF got[i].exists
           THEN write_file(mkdir_parents(tree, <<ts[i]>>),
                           FileNode(<<ts[i]>>, options_name(ts[i]), r))
           ELSE mkdir_parents(tree, <<ts[i]>>),
           ts, got, r, i + 1)

\* the three enrichers' run() over the tickers' options files: a ticker
\* without file is passed over, and so is one without spot price in
\* add_relative_strike; an exception of the file's call leaves run()
RECURSIVE enrich_all(_, _, _, _, _)
enrich_all(s, files, snap, spots, i) ==
    IF i > Len(files) THEN [files |-> files, raised |-> FALSE]
    ELSE IF ~files[i].exists \/ (s = "relative_strike" /\ isna(spots[i]))
         THEN enrich_all(s, files, snap, spots, i + 1)
    ELSE IF enrich_file(s, files[i], snap, spots[i]).raised
         THEN [files |-> files, raised |-> TRUE]
    ELSE enrich_all(s, [files EXCEPT ![i] = enrich_file(s, files[i], snap, spots[i]).file],
                    snap, spots, i + 1)

\* the spot prices resolve_spot_price_for_ticker gives in the pipeline, NaN
\* standing for a failed fetch
PipelineSpots == {NaN, Num(F(200))}

\* aggregate_strike_buckets.run over the tickers: the summaries written
RECURSIVE aggregate_tree(_, _, _, _, _)
aggregate_tree(tree, ts, files, r, i) ==
    IF i > Len(ts) THEN tree
    ELSE aggregate_tree(
           IF agg_tag(files[i]) = "written"
           THEN write_file(tree, FileNode(<<ts[i]>>, summary_name(ts[i]), r))
           ELSE tree,
           ts, files, r, i + 1)

\* the run that wrote the summary at the path load_summary builds, 0 when
\* the path does not exist
load_summary_run(tree, day, t) ==
    IF file_exists(tree, dest_root_of(day) \o <<t>>, summary_name(t))
    THEN (CHOOSE n \in tree :
            n.dir = dest_root_of(day) \o <<t>> /\ n.name = summary_name(t)).run
    ELSE 0

PipelineInit ==
    /\ pipe_pc = "start"
    /\ pipe_step = 1
    /\ pipe_exit = -1
    /\ pipe_trace = <<>>
    /\ pipe_run = 1
    /\ pipe_tickers \in TickerLists
    /\ valuation_date \in ValuationDates
    /\ run_dates = [orchestrator |-> Unset, basket |-> Unset, single |-> Unset]
    /\ csv_out = {}
    /\ options_file = [i \in 1..Len(pipe_tickers) |-> NoFile]
    /\ pipe_spots = [i \in 1..Len(pipe_tickers) |-> NaN]
    /\ pipe_agg_log = <<>>
    /\ basket_seen = <<>>

PipelineIdle ==
    /\ pipe_pc = "idle"
    /\ pipe_step = 1
    /\ pipe_exit = -1
    /\ pipe_trace = <<>>
    /\ pipe_run = 1
    /\ pipe_tickers = <<>>
    /\ valuation_date = NaN
    /\ run_dates = [orchestrator |-> Unset, basket |-> Unset, single |-> Unset]
    /\ csv_out = {}
    /\ options_file = <<>>
    /\ pipe_spots = <<>>
    /\ pipe_agg_log = <<>>
    /\ basket_seen = <<>>

\* main() up to its first step: the configuration is loaded and the run date
\* resolved
pipeline_start ==
    /\ pipe_pc = "start"
    /\ \E d \in {resolve_run_date(valuation_date, Today)} :
         /\ run_dates' = [run_dates EXCEPT !.orchestrator = d]
         /\ pipe_pc' = "step"
    /\ UNCHANGED <<pipe_exit, pipe_step, pipe_trace, pipe_run, pipe_tickers, valuation_date,
                   csv_out, options_file, pipe_spots, pipe_agg_log,
                   basket_seen>>

\* mutant: the return code is not looked at
run_cmd_unchecked(cmd, rc) ==
    /\ pipe_pc = "step"
    /\ Steps[pipe_step] = cmd
    /\ pipe_trace' = Append(pipe_trace, [step |-> cmd, rc |-> rc])
    /\ pipe_pc' = IF pipe_step = Len(Steps) THEN "done" ELSE "step"
    /\ pipe_exit' = IF pipe_step = Len(Steps) THEN 0 ELSE pipe_exit
    /\ pipe_step' = IF pipe_step = Len(Steps) THEN pipe_step ELSE pipe_step + 1

\* run_cmd, and main() going on to its next statement: a return code other
\* than 0 is the orchestrator's exit code
run_cmd(cmd, rc) ==
    /\ pipe_pc = "step"
    /\ Steps[pipe_step] = cmd
    /\ pipe_trace' = Append(pipe_trace, [step |-> cmd, rc |-> rc])
    /\ pipe_pc' = IF rc # 0 THEN "exited"
                  ELSE IF pipe_step = Len(Steps) THEN "done" ELSE "step"
    /\ pipe_exit' = IF rc # 0 THEN rc
                    ELSE IF pipe_step = Len(Steps) THEN 0 ELSE pipe_exit
    /\ pipe_step' = IF rc # 0 \/ pipe_step = Len(Steps) THEN pipe_step
                    ELSE pipe_step + 1

\* options_to_csv.py
step_options_to_csv ==
    /\ \E rc \in ExitCodes :
         /\ run_cmd("options_to_csv", rc)
         /\ IF rc # 0
            THEN UNCHANGED <<csv_out, options_file>>
            ELSE \E got \in [1..Len(pipe_tickers) -> DownloadedFiles \cup {NoFile}] :
                   /\ csv_out' = download_tree(mkdir_parents(csv_out, <<>>),
                                               pipe_tickers, got, pipe_run, 1)
                   /\ options_file' = [i \in 1..Len(pipe_tickers) |->
                                         IF got[i].exists THEN got[i]
                                         ELSE options_file[i]]
    /\ UNCHANGED <<pipe_run, pipe_tickers, valuation_date, run_dates,
                   pipe_spots, pipe_agg_log, basket_seen>>

\* add_tenor_days.py (no snap_date configured: the snapshot is utcnow)
step_add_tenor_days ==
    /\ \E now \in { Timestamp(Today, t) : t \in 0..(TicksPerDay - 1) } :
       \E r \in {enrich_all("tenor", options_file, now, pipe_spots, 1)} :
       \E rc \in (IF r.raised THEN {1} ELSE ExitCodes) :
         /\ run_cmd("add_tenor_days", rc)
         /\ options_file' = IF rc = 0 THEN r.files ELSE options_file
    /\ UNCHANGED <<pipe_run, pipe_tickers, valuation_date, run_dates,
                   csv_out, pipe_spots, pipe_agg_log, basket_seen>>

\* add_max_tenor.py
step_add_max_tenor ==
    /\ \E r \in {enrich_all("max_tenor", options_file, NaT, pipe_spots, 1)} :
       \E rc \in (IF r.raised THEN {1} ELSE ExitCodes) :
         /\ run_cmd("add_max_tenor", rc)
         /\ options_file' = IF rc = 0 THEN r.files ELSE options_file
    /\ UNCHANGED <<pipe_run, pipe_tickers, valuation_date, run_dates,
                   csv_out, pipe_spots, pipe_agg_log, basket_seen>>

\* add_relative_strike.py
step_add_relative_strike ==
    /\ \E spots \in [1..Len(pipe_tickers) -> PipelineSpots] :
       \E r \in {enrich_all("relative_strike", options_file, NaT, spots, 1)} :
       \E rc \in (IF r.raised THEN {1} ELSE ExitCodes) :
         /\ run_cmd("add_relative_strike", rc)
         /\ options_file' = IF rc = 0 THEN r.files ELSE options_file
         /\ pipe_spots' = IF rc = 0 THEN spots ELSE pipe_spots
    /\ UNCHANGED <<pipe_run, pipe_tickers, valuation_date, run_dates,
                   csv_out, pipe_agg_log, basket_seen>>

\* aggregate_strike_buckets.py
step_aggregate_strike_buckets ==
    /\ \E rc \in ExitCodes :
         /\ run_cmd("aggregate_strike_buckets", rc)
         /\ csv_out' = IF rc = 0
                       THEN aggregate_tree(csv_out, pipe_tickers, options_file,
                                           pipe_run, 1)
                       ELSE csv_out
         /\ pipe_agg_log' = IF rc = 0
                            THEN [i \in 1..Len(pipe_tickers) |->
                                    agg_tag(options_file[i])]
                            ELSE pipe_agg_log
    /\ UNCHANGED <<pipe_run, pipe_tickers, valuation_date, run_dates,
                   options_file, pipe_spots, basket_seen>>

\* move_csv_out_to_enriched(repo_root, run_date), called by main() itself:
\* an exception of shutil.move leaves main()
step_move_csv_out_to_enriched ==
    /\ pipe_pc = "step"
    /\ Steps[pipe_step] = "move_csv_out_to_enriched"
    /\ \E order \in move_orders(csv_out, run_dates.orchestrator.day) :
       \E m \in {move_csv_out_to_enriched(csv_out, run_dates.orchestrator.day, order)} :
         /\ csv_out' = m.tree
         /\ options_file' =
              [i \in 1..Len(pipe_tickers) |->
                 IF file_exists(m.tree, <<pipe_tickers[i]>>,
                                options_name(pipe_tickers[i]))
                 THEN options_file[i] ELSE NoFile]
         /\ pipe_trace' = Append(pipe_trace,
                                 [step |-> "move_csv_out_to_enriched",
                                  rc |-> IF m.raised THEN 1 ELSE 0])
         /\ pipe_pc' = IF m.raised THEN "raised" ELSE "step"
         /\ pipe_exit' = IF m.raised THEN 1 ELSE pipe_exit
         /\ pipe_step' = IF m.raised THEN pipe_step ELSE pipe_step + 1
    /\ UNCHANGED <<pipe_run, pipe_tickers, valuation_date, run_dates,
                   pipe_spots, pipe_agg_log, basket_seen>>

\* basket_portfolio_add_fair_value_from_buckets.py, over a portfolio that
\* names the configured tickers: an exception of its resolve_run_date ends
\* it with status 1
step_basket_fair_value ==
    /\ \E d \in {basket_resolve_run_date(valuation_date, Today)} :
       \E rc \in (IF d.k = "raise" THEN {1} ELSE ExitCodes) :
         /\ run_cmd("basket_portfolio_add_fair_value_from_buckets", rc)
         /\ run_dates' = [run_dates EXCEPT !.basket = d]
         /\ basket_seen' = IF rc = 0
                           THEN [i \in 1..Len(pipe_tickers) |->
                                   load_summary_run(csv_out, d.day, pipe_tickers[i])]
                           ELSE basket_seen
    /\ UNCHANGED <<pipe_run, pipe_tickers, valuation_date, csv_out,
                   options_file, pipe_spots, pipe_agg_log>>

\* add_fair_value_from_buckets.py is run once the pipeline has run its own
\* matcher: its main() resolves the run date before it reads or writes
\* anything
single_matcher_start ==
    /\ pipe_pc \in {"exited", "done"}
    /\ pipe_step = Len(Steps)
    /\ run_dates.single = Unset
    /\ run_dates' = [run_dates EXCEPT
                       !.single = single_resolve_run_date(valuation_date, Today)]
    /\ UNCHANGED <<pipe_pc, pipe_step, pipe_exit, pipe_trace, pipe_run, pipe_tickers,
                   valuation_date, csv_out, options_file, pipe_spots,
                   pipe_agg_log, basket_seen>>

\* how many times the pipeline is run
MaxPipelineRuns == 3

\* the pipeline is run again after a run that reached its end, with the same
\* configuration
pipeline_again ==
    /\ pipe_pc = "done"
    /\ pipe_run < MaxPipelineRuns
    /\ pipe_run' = pipe_run + 1
    /\ pipe_pc' = "start"
    /\ pipe_step' = 1
    /\ pipe_exit' = -1
    /\ pipe_trace' = <<>>
    /\ run_dates' = [orchestrator |-> Unset, basket |-> Unset, single |-> Unset]
    /\ pipe_spots' = [i \in 1..Len(pipe_tickers) |-> NaN]
    /\ pipe_agg_log' = <<>>
    /\ basket_seen' = <<>>
    /\ UNCHANGED <<pipe_tickers, valuation_date, csv_out, options_file>>

(***************************************************************************)
(* add_fair_value.py: the earlier revision of the single-ticker matcher.   *)
(* Its summaries have the columns lower_strike, upper_strike and           *)
(* max_relative_strike, which pd.read_csv leaves numeric.                  *)
(***************************************************************************)
VARIABLES
    earlier_pc,          \* main(): "apply", "done" or "raised"
    earlier_summary,     \* the ticker's summary file in the dated directory
    earlier_rows,        \* the relative_strike cells handed to compute_fair_value
    earlier_fair_value   \* per row handed over, what compute_fair_value found

earlierVars == <<earlier_pc, earlier_summary, earlier_rows, earlier_fair_value>>

EarlierRow(lo, hi, mx) ==
    [lower_strike |-> Num(lo), upper_strike |-> Num(hi), max_relative_strike |-> mx]

EarlierColumns == {"ticker", "lower_strike", "upper_strike", "max_relative_strike"}

\* adjacent buckets (0,20] (20,30] (30,50], the last without a statistic
EarlierAdjacent ==
    CsvFile(EarlierColumns,
            << EarlierRow(F(0), F(20), Num(F(15))),
               EarlierRow(F(20), F(30), Num(F(28) + 50)),
               EarlierRow(F(30), F(50), NaN) >>)

\* overlapping buckets, the narrower one second
EarlierOverlapping ==
    CsvFile(EarlierColumns,
            << EarlierRow(F(0), F(50), Num(F(40))),
               EarlierRow(F(20), F(30), Num(F(25))) >>)

EarlierSummaryFiles == { NoFile, EarlierAdjacent, EarlierOverlapping }

\* relative_strike cells of the portfolio: 0, 20, 24.5, 30, 50, 60, "30",
\* "20,00%", "abc" and an empty cell
EarlierStrikeCells ==
    { Num(0), Num(F(20)), Num(F(24) + 50), Num(F(30)), Num(F(50)), Num(F(60)),
      Str(<<"3", "0">>), Str(<<"2", "0", ",", "0", "0", "%">>),
      Str(<<"a", "b", "c">>), NaN }

\* mutant: the later revision's range, lower <= rel < upper
earlier_mask_lower_closed(row, rel) ==
    /\ ~isna(row.lower_strike) /\ ~isna(row.upper_strike)
    /\ row.lower_strike.v <= rel /\ row.upper_strike.v > rel

\* one row of (summary_df["lower_strike"] < rel) & (summary_df["upper_strike"] >= rel)
earlier_mask(row, rel) ==
    /\ ~isna(row.lower_strike) /\ ~isna(row.upper_strike)
    /\ row.lower_strike.v < rel /\ row.upper_strike.v >= rel

\* match = summary_df[mask], as the indices of the matching rows in file order
RECURSIVE earlier_match_rows(_, _, _)
earlier_match_rows(rows, rel, i) ==
    IF i > Len(rows) THEN <<>>
    ELSE (IF earlier_mask(rows[i], rel) THEN <<i>> ELSE <<>>)
            \o earlier_match_rows(rows, rel, i + 1)

\* compute_fair_value of add_fair_value.py for one relative_strike cell
earlier_compute_fair_value(summary, value) ==
    IF ~summary.exists
    THEN [raised |-> FALSE, rel |-> NaN, match |-> <<>>, fair_value |-> NaN]
    ELSE IF parse_relative_strike(value) = Raise
    THEN [raised |-> TRUE, rel |-> NaN, match |-> <<>>, fair_value |-> NaN]
    ELSE IF isna(parse_relative_strike(value))
    THEN [raised |-> FALSE, rel |-> NaN, match |-> <<>>, fair_value |-> NaN]
    ELSE IF earlier_match_rows(summary.rows, parse_relative_strike(value).v, 1) = <<>>
    THEN [raised |-> FALSE, rel |-> parse_relative_strike(value), match |-> <<>>,
          fair_value |-> NaN]
    ELSE [raised |-> FALSE, rel |-> parse_relative_strike(value),
          match |-> earlier_match_rows(summary.rows, parse_relative_strike(value).v, 1),
          fair_value |->
              summary.rows[earlier_match_rows(summary.rows,
                                              parse_relative_strike(value).v, 1)[1]]
                  .max_relative_strike]

MaxEarlierRows == 2

EarlierInit ==
    /\ earlier_pc = "apply"
    /\ earlier_summary \in EarlierSummaryFiles
    /\ earlier_rows = <<>>
    /\ earlier_fair_value = <<>>

EarlierIdle ==
    /\ earlier_pc = "idle"
    /\ earlier_summary = NoFile
    /\ earlier_rows = <<>>
    /\ earlier_fair_value = <<>>

\* df.apply(compute_fair_value, axis=1) reaches the next portfolio row
earlier_apply(value) ==
    /\ earlier_pc = "apply"
    /\ Len(earlier_rows) < MaxEarlierRows
    /\ \E r \in {earlier_compute_fair_value(earlier_summary, value)} :
         /\ earlier_fair_value' = Append(earlier_fair_value, r)
         /\ earlier_pc' = IF r.raised THEN "raised" ELSE "apply"
    /\ earlier_rows' = Append(earlier_rows, value)
    /\ UNCHANGED earlier_summary

\* the portfolio is over: the output file is written
earlier_save ==
    /\ earlier_pc = "apply"
    /\ earlier_pc' = "done"
    /\ UNCHANGED <<earlier_summary, earlier_rows, earlier_fair_value>>

(***************************************************************************)
(* eurex/eurex_data_extraction.py: one call of GraphQLClient.request.  A   *)
(* response is its status code and what its body holds.                    *)
(***************************************************************************)
VARIABLES
    gql_pc,         \* request(): "ready", "retrying" (the fallback POST is due),
                    \* "returned", "raised" or "idle"
    gql_url,        \* config graphql.url
    gql_posts,      \* the URLs this call has posted to, in order
    gql_responses   \* the responses to them

gqlVars == <<gql_pc, gql_url, gql_posts, gql_responses>>

\* str.rstrip("/")
RECURSIVE rstrip_slash(_)
rstrip_slash(s) ==
    IF s # <<>> /\ s[Len(s)] = "/" THEN rstrip_slash(SubSeq(s, 1, Len(s) - 1)) ELSE s

\* str.endswith("/")
endswith_slash(s) == s # <<>> /\ s[Len(s)] = "/"

\* url_variants: (as given, with the trailing slash toggled)
url_variants(url) ==
    IF endswith_slash(strip(url))
    THEN <<strip(url), rstrip_slash(strip(url))>>
    ELSE <<strip(url), strip(url) \o <<"/">>>>

\* self.url_primary, self.url_fallback as __init__ sets them
url_primary(url) == url_variants(strip(url))[1]
url_fallback(url) == url_variants(strip(url))[2]

\* graphql.url: "h/q", "h/q/", " h/q// "
GraphqlUrls ==
    { <<"h", "/", "q">>, <<"h", "/", "q", "/">>,
      <<" ", "h", "/", "q", "/", "/", " ">> }

\* the body of a response: no JSON, JSON without errors, with an empty
\* errors list, with errors
Bodies == {"not_json", "data", "errors_empty", "errors"}

Responses == { [status |-> st, body |-> b] : st \in {200, 400, 404, 500}, b \in Bodies }

\* mutant: any error status is tried again
should_retry_any_error(r, primary, fallback) == r.status >= 400 /\ fallback # primary

\* r.status_code == 404 and self.url_fallback != self.url_primary
should_retry(r, primary, fallback) == r.status = 404 /\ fallback # primary

\* request() from the HTTP error handling on: raise_for_status, r.json(),
\* the errors of the body
request_outcome(r) ==
    IF r.status >= 400 THEN "raised"
    ELSE IF r.body = "not_json" THEN "raised"
    ELSE IF r.body = "errors" THEN "raised"
    ELSE "returned"

GqlInit ==
    /\ gql_pc = "ready"
    /\ gql_url \in GraphqlUrls
    /\ gql_posts = <<>>
    /\ gql_responses = <<>>

GqlIdle ==
    /\ gql_pc = "idle"
    /\ gql_url = <<>>
    /\ gql_posts = <<>>
    /\ gql_responses = <<>>

\* request(): the POST to the primary URL and, unless the fallback is due,
\* the rest of the call
request(r) ==
    /\ gql_pc = "ready"
    /\ gql_posts' = <<url_primary(gql_url)>>
    /\ gql_responses' = <<r>>
    /\ gql_pc' = IF should_retry(r, url_primary(gql_url), url_fallback(gql_url))
                 THEN "retrying" ELSE request_outcome(r)
    /\ UNCHANGED gql_url

\* request(): the POST to the fallback URL and the rest of the call
request_fallback(r) ==
    /\ gql_pc = "retrying"
    /\ gql_posts' = Append(gql_posts, url_fallback(gql_url))
    /\ gql_responses' = Append(gql_responses, r)
    /\ gql_pc' = request_outcome(r)
    /\ UNCHANGED gql_url

(***************************************************************************)
(* The summary aggregate_for_ticker writes is the one the matcher reads:   *)
(* an input file is aggregated for one ticker, the summary is moved to the *)
(* dated directory as it is, and compute_fair_value of                     *)
(* add_fair_value_from_buckets.py is called with the relative strike of a  *)
(* row of that input.                                                      *)
(***************************************************************************)
VARIABLES
    handed_pc,       \* "start", "aggregated", "matched" or "idle"
    handed_buckets,  \* config/strike_buckets.yaml
    handed_input,    \* the ticker's options file aggregate_for_ticker read
    handed_summary,  \* the summary file it wrote
    handed_row,      \* the input row whose relative strike is matched
    handed_result    \* what compute_fair_value found

handedVars == <<handed_pc, handed_buckets, handed_input, handed_summary, handed_row,
                handed_result>>

NoMatch ==
    [cache |-> <<>>, raised |-> FALSE, fair_value |-> NaN, rel |-> NaN, match |-> <<>>]

HandedInit ==
    /\ handed_pc = "start"
    /\ handed_buckets \in BucketConfigs
    /\ handed_input = NoFile
    /\ handed_summary = NoFile
    /\ handed_row = 0
    /\ handed_result = NoMatch

HandedIdle ==
    /\ handed_pc = "idle"
    /\ handed_buckets = <<>>
    /\ handed_input = NoFile
    /\ handed_summary = NoFile
    /\ handed_row = 0
    /\ handed_result = NoMatch

\* aggregate_for_ticker for ABC, in an output directory without summary
handed_aggregate ==
    /\ handed_pc = "start"
    /\ \E f \in InputFiles :
         /\ handed_input' = f
         /\ handed_summary' = summary_after(T_ABC, f, handed_buckets, NoFile)
    /\ handed_pc' = "aggregated"
    /\ UNCHANGED <<handed_buckets, handed_row, handed_result>>

\* compute_fair_value for a portfolio row of ABC that holds the relative
\* strike of input row i
handed_match(i) ==
    /\ handed_pc \in {"aggregated", "matched"}
    /\ i \in 1..Len(handed_input.rows)
    /\ handed_row' = i
    /\ handed_result' =
         compute_fair_value_body(NoMatch, read_summary(handed_summary),
                                 parse_relative_strike(handed_input.rows[i].relative_strike))
    /\ handed_pc' = "matched"
    /\ UNCHANGED <<handed_buckets, handed_input, handed_summary>>

AggIdle ==
    /\ agg_pc = "idle"
    /\ agg_env = [yaml |-> NoYaml, has_tickers |-> FALSE, outdir_exists |-> FALSE]
    /\ agg_log = <<>>
    /\ buckets = <<>>
    /\ agg_i = 1
    /\ input_file = NoFile
    /\ bucket_df = <<>>
    /\ summary_before = NoFile
    /\ summary_files = [t \in {T_ABC, T_DEF} |-> NoFile]

\* the variables of the components a run of one script leaves alone
laterVars == <<pipeVars, earlierVars, gqlVars, handedVars>>

vars == <<aggVars, script, enriched_summary, disk_reads, matchVars, basketVars,
          enrichVars, laterVars>>

LaterIdle == PipelineIdle /\ EarlierIdle /\ GqlIdle /\ HandedIdle

InitAggregateRun ==
    /\ script = "aggregate"
    /\ InitAggregate
    /\ enriched_summary = [t \in {T_ABC, T_DEF} |-> NoFile]
    /\ disk_reads = <<>>
    /\ MatchIdle
    /\ BasketIdle
    /\ EnrichIdle
    /\ LaterIdle

NextAggregate ==
    /\ \/ run_checks
       \/ load_strike_buckets
       \/ \E t \in {T_ABC, T_DEF} : aggregate_for_ticker(t)
       \/ next_ticker
       \/ aggregate_completed
    /\ UNCHANGED <<script, enriched_summary, disk_reads, matchVars, basketVars,
                   enrichVars, laterVars>>

SpecAggregate == InitAggregateRun /\ [][NextAggregate]_vars

\* a run of one of the two matcher scripts over the summaries on disk
InitMatchers ==
    /\ script \in {"single", "basket"}
    /\ AggIdle
    /\ EnrichIdle
    /\ LaterIdle
    /\ enriched_summary \in [{T_ABC, T_DEF} -> SummaryFiles]
    /\ disk_reads = <<>>
    /\ IF script = "single" THEN MatchInit /\ BasketIdle
                            ELSE MatchIdle /\ BasketInit

NextSingle ==
    /\ \/ \E t \in {T_ABC, T_DEF} :
            \E rs \in StrikeCells(rs_dtype) : compute_fair_value(PortfolioRow(t, rs))
       \/ save_with_fair_value
    /\ UNCHANGED <<aggVars, script, enriched_summary, basketVars, enrichVars,
                   laterVars>>

NextBasket ==
    /\ \/ \E row \in BasketRows : basket_per_row(row)
       \/ basket_columns_set
       \/ basket_next_file
    /\ UNCHANGED <<aggVars, script, enriched_summary, matchVars, enrichVars,
                   laterVars>>

NextMatchers == NextSingle \/ NextBasket

SpecMatchers == InitMatchers /\ [][NextMatchers]_vars

\* a run of one of the three enrichers over the files under outdir
InitEnrich ==
    /\ script \in {"tenor", "max_tenor", "relative_strike"}
    /\ AggIdle
    /\ enriched_summary = [t \in {T_ABC, T_DEF} |-> NoFile]
    /\ disk_reads = <<>>
    /\ MatchIdle
    /\ BasketIdle
    /\ EnrichInit
    /\ LaterIdle

NextEnrich ==
    /\ \/ resolve_snap_date
       \/ \E t \in {T_ABC, T_DEF} : skip_ticker(t)
       \/ \E t \in {T_ABC, T_DEF} : enrich_ticker(t)
       \/ calculate_max_tenor_again
       \/ enrich_next_ticker
       \/ enrich_completed
    /\ UNCHANGED <<aggVars, script, enriched_summary, disk_reads, matchVars,
                   basketVars, laterVars>>

SpecEnrich == InitEnrich /\ [][NextEnrich]_vars

\* the variables of the scripts run on their own
earlyVars == <<aggVars, enriched_summary, disk_reads, matchVars, basketVars,
               enrichVars>>

EarlyIdle ==
    /\ AggIdle
    /\ enriched_summary = [t \in {T_ABC, T_DEF} |-> NoFile]
    /\ disk_reads = <<>>
    /\ MatchIdle
    /\ BasketIdle
    /\ EnrichIdle

\* runs of the orchestrator, and of the single-ticker matcher after them
InitPipeline ==
    /\ script = "pipeline"
    /\ EarlyIdle
    /\ PipelineInit
    /\ EarlierIdle
    /\ GqlIdle
    /\ HandedIdle

NextPipeline ==
    /\ \/ pipeline_start
       \/ step_options_to_csv
       \/ step_add_tenor_days
       \/ step_add_max_tenor
       \/ step_add_relative_strike
       \/ step_aggregate_strike_buckets
       \/ step_move_csv_out_to_enriched
       \/ step_basket_fair_value
       \/ single_matcher_start
       \/ pipeline_again
    /\ UNCHANGED <<script, earlyVars, earlierVars, gqlVars, handedVars>>

SpecPipeline == InitPipeline /\ [][NextPipeline]_vars

\* a run of the earlier revision of the single-ticker matcher
InitEarlier ==
    /\ script = "earlier"
    /\ EarlyIdle
    /\ PipelineIdle
    /\ EarlierInit
    /\ GqlIdle
    /\ HandedIdle

NextEarlier ==
    /\ \/ \E value \in EarlierStrikeCells : earlier_apply(value)
       \/ earlier_save
    /\ UNCHANGED <<script, earlyVars, pipeVars, gqlVars, handedVars>>

SpecEarlier == InitEarlier /\ [][NextEarlier]_vars

\* one call of GraphQLClient.request
InitEurex ==
    /\ script = "eurex"
    /\ EarlyIdle
    /\ PipelineIdle
    /\ EarlierIdle
    /\ GqlInit
    /\ HandedIdle

NextEurex ==
    /\ \/ \E r \in Responses : request(r)
       \/ \E r \in Responses : request_fallback(r)
    /\ UNCHANGED <<script, earlyVars, pipeVars, earlierVars, handedVars>>

SpecEurex == InitEurex /\ [][NextEurex]_vars

\* the aggregator's summary handed to the matcher
InitHanded ==
    /\ script = "handed"
    /\ EarlyIdle
    /\ PipelineIdle
    /\ EarlierIdle
    /\ GqlIdle
    /\ HandedInit

NextHanded ==
    /\ \/ handed_aggregate
       \/ \E i \in 1..MaxInputRows : handed_match(i)
    /\ UNCHANGED <<script, earlyVars, pipeVars, earlierVars, gqlVars>>

SpecHanded == InitHanded /\ [][NextHanded]_vars

(***************************************************************************)
(* Claims about aggregate_for_ticker.  They are read in the state right    *)
(* after a call (agg_pc = "called"): input_file is the file the call       *)
(* found, summary_before the ticker's summary file before the call.        *)
(***************************************************************************)
AggCalled == agg_pc = "called"

\* the ticker of the call just made
LastTicker == tickers[agg_i]

LastSummary == summary_files[LastTicker]

HasBothColumns(f) ==
    f.exists /\ {"relative_strike", "max_tenor_for_strike"} \subseteq f.columns

\* the input rows whose relative_strike and max_tenor_for_strike are numbers
CleanRows ==
    { i \in 1..Len(input_file.rows) :
        /\ ~isna(to_numeric(input_file.rows[i].relative_strike))
        /\ ~isna(to_numeric(input_file.rows[i].max_tenor_for_strike)) }

RelOf(i) == to_numeric(input_file.rows[i].relative_strike).v
TenorOf(i) == to_numeric(input_file.rows[i].max_tenor_for_strike).v

\* the clean rows with lower <= relative_strike < upper
RowsIn(b) == { i \in CleanRows : b.lower <= RelOf(i) /\ RelOf(i) < b.upper }

MaxOf(S) == CHOOSE m \in S : \A x \in S : m >= x

ExpectedStatistic(b) ==
    IF RowsIn(b) = {} THEN NaN ELSE Num(MaxOf({ TenorOf(i) : i \in RowsIn(b) }))

SummaryRowsOf(f, b) ==
    { k \in 1..Len(f.rows) :
        f.rows[k].lower = Num(b.lower) /\ f.rows[k].upper = Num(b.upper) }

\* the call wrote the summary file
SummaryEmitted == AggCalled /\ LastSummary # summary_before

\* C1: in an emitted summary every configured bucket has a row, and the
\* statistic of every row of that bucket is the maximum of
\* max_tenor_for_strike over the numeric input rows with
\* lower <= relative_strike < upper, or null when there is no such row.
C1_BucketStatisticIsMax ==
    SummaryEmitted =>
        \A j \in 1..Len(buckets) :
            /\ SummaryRowsOf(LastSummary, buckets[j]) # {}
            /\ \A k \in SummaryRowsOf(LastSummary, buckets[j]) :
                  LastSummary.rows[k].max_tenor_for_strike
                      = ExpectedStatistic(buckets[j])

\* C1 witness: an emitted summary with one bucket reduced from two rows of
\* different values, the larger one second, and one bucket left null.
C1_Witness ==
    /\ SummaryEmitted
    /\ \E j \in 1..Len(buckets) :
          \E a, c \in RowsIn(buckets[j]) : a < c /\ TenorOf(a) < TenorOf(c)
    /\ \E j \in 1..Len(buckets) :
          /\ RowsIn(buckets[j]) = {}
          /\ \E k \in SummaryRowsOf(LastSummary, buckets[j]) :
                isna(LastSummary.rows[k].max_tenor_for_strike)

\* the file holds exactly one row per configured bucket, in configuration order
OneRowPerBucket(f) ==
    /\ f.exists
    /\ Len(f.rows) = Len(buckets)
    /\ \A j \in 1..Len(buckets) :
          /\ f.rows[j].lower = Num(buckets[j].lower)
          /\ f.rows[j].upper = Num(buckets[j].upper)
          /\ f.rows[j].ticker = LastTicker

\* C2 as stated: whenever the input file exists with both columns, the
\* ticker's summary file holds one row per configured bucket in order,
\* whatever the row values are.
C2_AlwaysOneRowPerBucket ==
    (AggCalled /\ HasBothColumns(input_file)) => OneRowPerBucket(LastSummary)

\* C2 amended: with both columns and at least one row whose two values are
\* numeric, the summary file is overwritten with one row per configured
\* bucket in order; with both columns and no such row, nothing is written
\* and the summary file stays what it was before the call.
C2_OneRowPerBucketWhenCleanRow ==
    (AggCalled /\ HasBothColumns(input_file)) =>
        IF CleanRows # {}
        THEN OneRowPerBucket(LastSummary)
        ELSE LastSummary = summary_before

\* C2 witness: a stale summary overwritten by a call none of whose clean
\* rows falls in any bucket.
C2_Witness ==
    /\ AggCalled
    /\ HasBothColumns(input_file)
    /\ CleanRows # {}
    /\ \A j \in 1..Len(buckets) : RowsIn(buckets[j]) = {}
    /\ summary_before = StaleSummary
    /\ OneRowPerBucket(LastSummary)

NonOverlapping(bs) ==
    \A i, j \in 1..Len(bs) :
        i # j => (bs[i].upper <= bs[j].lower \/ bs[j].upper <= bs[i].lower)

\* the buckets whose mask selected input row i
SelectedBy(i) ==
    { j \in 1..Len(bucket_df) : \E k \in 1..Len(bucket_df[j]) : bucket_df[j][k] = i }

\* C3 as stated: for pairwise non-overlapping ranges every row that survives
\* cleaning is selected by exactly one bucket's mask.
C3_ExactlyOneBucket ==
    (AggCalled /\ bucket_df # <<>> /\ NonOverlapping(buckets)) =>
        \A i \in CleanRows : Cardinality(SelectedBy(i)) = 1

\* C3 amended: for pairwise non-overlapping ranges every row that survives
\* cleaning is selected by at most one bucket's mask: by exactly one when
\* some configured range [lower, upper) holds its relative_strike, and by
\* none (contributing to no maximum) when it lies outside every range.
C3_AtMostOneBucket ==
    (AggCalled /\ bucket_df # <<>> /\ NonOverlapping(buckets)) =>
        \A i \in CleanRows :
            /\ Cardinality(SelectedBy(i)) <= 1
            /\ SelectedBy(i) = { j \in 1..Len(buckets) : i \in RowsIn(buckets[j]) }

\* C3 witness: non-overlapping ranges, one clean row on a shared boundary
\* selected once and one clean row outside every range.
C3_Witness ==
    /\ AggCalled
    /\ bucket_df # <<>>
    /\ NonOverlapping(buckets)
    /\ \E i \in CleanRows :
          /\ Cardinality(SelectedBy(i)) = 1
          /\ \E j \in 1..Len(buckets) : buckets[j].upper = RelOf(i)
    /\ \E i \in CleanRows : SelectedBy(i) = {}

(***************************************************************************)
(* Claims about the two later-revision matchers.  In a run of                *)
(* add_fair_value_from_buckets.py row i of portfolio has its results in     *)
(* fair_value[i], rels[i] and matches[i]; in a run of the basket script     *)
(* basket_row is the row per_row handled last, basket_result what it        *)
(* returned and basket_lookups what its loop found per ticker.              *)
(***************************************************************************)
RequiredColumns == {"lower", "upper", "max_tenor_for_strike"}

\* the ticker's summary file is there with its required columns
Usable(t) == summary_path(t).exists /\ RequiredColumns \subseteq summary_path(t).columns

\* the rows of ticker t's summary file whose range [lower, upper) holds r
Containing(t, r) ==
    { k \in 1..Len(summary_path(t).rows) :
        /\ summary_path(t).rows[k].lower.v <= r
        /\ r < summary_path(t).rows[k].upper.v }

Least(S) == CHOOSE m \in S : \A x \in S : m <= x

\* the statistic of the first row in file order whose range holds r
FirstStatistic(t, r) ==
    summary_path(t).rows[Least(Containing(t, r))].max_tenor_for_strike

AsSet(q) == { q[k] : k \in 1..Len(q) }

\* the rows of the portfolio compute_fair_value returned a value for
Valued == 1..Len(fair_value)

\* the tickers a baskettickers cell lists, and the midpoint a strike_bucket
\* label stands for (no entry: the label is unparsable)
ListedTickers(c) ==
    IF c = Str(<<"A", "B", "C", ",", "D", "E", "F">>) THEN <<T_ABC, T_DEF>>
    ELSE IF c = Str(<<"D", "E", "F", ",", " ", "A", "B", "C">>) THEN <<T_DEF, T_ABC>>
    ELSE IF c = Str(<<"A", "B", "C", ",", ",", "X", "Y", "Z">>) THEN <<T_ABC, <<"X", "Y", "Z">> >>
    ELSE IF c = Str(<<"A", "B", "C">>) THEN << T_ABC >>
    ELSE <<>>

LabelMidpoint(c) ==
    IF c = Str(<<"2", "0", "-", "3", "0">>) THEN Num(F(25))
    ELSE IF c = Str(<<"2", "0", "-", "4", "0">>) THEN Num(F(30))
    ELSE IF c = Str(<<"6", "0", "-", "8", "0">>) THEN Num(F(70))
    ELSE IF c = Str(<<"3", "0", "-", "5", "0">>) THEN Num(F(40))
    ELSE NaN

\* C4: a summary row is in a row's match exactly when lower <= rel < upper,
\* in the single-ticker matcher and in the basket matcher, so a rel on the
\* boundary shared by two buckets matches the one whose lower bound it is.
C4_MatchIsHalfOpen ==
    /\ \A i \in Valued :
          (Usable(portfolio[i].ticker) /\ ~isna(rels[i])) =>
              /\ AsSet(matches[i]) = Containing(portfolio[i].ticker, rels[i].v)
              /\ \A k \in 1..Len(summary_path(portfolio[i].ticker).rows) :
                    summary_path(portfolio[i].ticker).rows[k].upper.v = rels[i].v
                        => k \notin AsSet(matches[i])
    /\ \A j \in 1..Len(basket_lookups) :
          basket_lookups[j].masked =>
              AsSet(basket_lookups[j].match)
                  = Containing(basket_lookups[j].ticker,
                               LabelMidpoint(basket_row.strike_bucket).v)

\* C4 witness: a rel equal to the boundary of two adjacent buckets, matched
\* by the bucket whose lower bound it is and by no other.
C4_Witness ==
    \E i \in Valued :
        LET rows == summary_path(portfolio[i].ticker).rows
        IN  /\ Usable(portfolio[i].ticker)
            /\ ~isna(rels[i])
            /\ \E k \in 1..Len(rows) : rows[k].upper.v = rels[i].v
            /\ Len(matches[i]) = 1
            /\ rows[matches[i][1]].lower.v = rels[i].v

\* C5: when more than one summary row matches, the matcher returns the
\* statistic of the first matching row in file order: as fair_value in the
\* single-ticker matcher, and in the basket matcher as the ticker's entry
\* (empty when that first statistic is null, whatever the later rows hold).
C5_FirstMatchWins ==
    /\ \A i \in Valued :
          (/\ Usable(portfolio[i].ticker)
           /\ ~isna(rels[i])
           /\ Cardinality(Containing(portfolio[i].ticker, rels[i].v)) > 1)
              => fair_value[i] = FirstStatistic(portfolio[i].ticker, rels[i].v)
    /\ \A j \in 1..Len(basket_lookups) :
          LET t == basket_lookups[j].ticker
              r == LabelMidpoint(basket_row.strike_bucket).v
              entry == split(basket_result.max_tenor_for_strike, ",")[j]
          IN  (basket_lookups[j].masked /\ Cardinality(Containing(t, r)) > 1) =>
                  IF isna(FirstStatistic(t, r)) THEN entry = <<>>
                  ELSE entry = max_tenor_text(FirstStatistic(t, r).v)

\* C5 witness: a portfolio row with two matching summary rows whose
\* statistics differ, valued with the first one's.
C5_Witness ==
    \E i \in Valued :
        LET rows == summary_path(portfolio[i].ticker).rows
        IN  /\ Len(matches[i]) = 2
            /\ rows[matches[i][1]].max_tenor_for_strike
                 # rows[matches[i][2]].max_tenor_for_strike
            /\ fair_value[i] = rows[matches[i][1]].max_tenor_for_strike
            /\ ~isna(fair_value[i])

\* the number a relative_strike cell stands for (NaN: an empty cell, or a
\* text that is no number)
NumberOf(c) ==
    IF c.k = "num" THEN Num(c.v)
    ELSE IF c = Str(<<"2", "4", ",", "5", "0", "%">>) THEN Num(F(24) + 50)
    ELSE IF c = Str(<<"2", "4", ".", "5", "0", "%">>) THEN Num(F(24) + 50)
    ELSE IF c = Str(<<"3", "0">>) THEN Num(F(30))
    ELSE IF c = Str(<<" ", "2", "0", "%">>) THEN Num(F(20))
    ELSE IF c = Str(<<"6", "0">>) THEN Num(F(60))
    ELSE NaN

Unparsable(c) == c.k = "str" /\ isna(NumberOf(c))

\* the fair_value of a row of ticker t whose relative strike is r
ExpectedFairValue(t, r) ==
    IF Containing(t, r) = {} THEN NaN ELSE FirstStatistic(t, r)

\* C6: a portfolio row whose ticker's summary file is absent or lacks a
\* required column, or whose relative strike no bucket contains, gets
\* fair_value NaN and raises nothing; every row with a usable summary and a
\* bucket containing its relative strike gets that bucket's statistic, and
\* the saved file holds the values row by row.
C6_MissingSummaryGivesNaN ==
    /\ \A i \in 1..Len(portfolio) :
          LET t == portfolio[i].ticker
              x == NumberOf(portfolio[i].relative_strike)
          IN  IF ~Usable(t) THEN i \in Valued /\ isna(fair_value[i])
              ELSE IF isna(x) THEN TRUE
              ELSE IF Containing(t, x.v) = {} THEN i \in Valued /\ isna(fair_value[i])
              ELSE i \in Valued /\ fair_value[i] = FirstStatistic(t, x.v)
    /\ match_pc = "done" =>
          /\ output_file.exists
          /\ Len(output_file.rows) = Len(portfolio)
          /\ \A i \in 1..Len(portfolio) :
                output_file.rows[i].fair_value = fair_value[i]

\* C6 witness: a saved portfolio whose first row is of a ticker without a
\* usable summary (fair_value NaN) and whose second row, of another
\* ticker, has the statistic 45 of its bucket.
C6_Witness ==
    /\ match_pc = "done"
    /\ Len(portfolio) = 2
    /\ ~Usable(portfolio[1].ticker)
    /\ portfolio[1].relative_strike.k = "str"
    /\ isna(output_file.rows[1].fair_value)
    /\ portfolio[2].ticker # portfolio[1].ticker
    /\ output_file.rows[2].fair_value = Num(F(45))

\* C7: a row whose relative-strike input is unparsable gets a missing value
\* and the run is never aborted: in the single-ticker matcher a text that
\* is no number gives fair_value NaN, in the basket matcher a malformed
\* bucket label gives empty outputs.
C7_UnparsableGivesMissing ==
    /\ match_pc # "raised"
    /\ \A i \in 1..Len(portfolio) :
          Unparsable(portfolio[i].relative_strike) =>
              i \in Valued /\ isna(fair_value[i])
    /\ (basket_n >= 1 /\ isna(LabelMidpoint(basket_row.strike_bucket))) =>
          /\ AsSet(basket_result.max_tenor_for_strike) \subseteq {","}
          /\ AsSet(basket_result.fair_value) \subseteq {","}

\* C8: '.' and ',' are the same decimal separator and '%' is stripped:
\* every cell that stands for a number parses to it ("24,50%", "24.50%"
\* and 24.5 to 24.5), and the row gets the statistic of the first bucket
\* containing it; with the bucket [20,30) of statistic 45 these three
\* cells give fair_value 45.
C8_ParseThenMatch ==
    \A i \in 1..Len(portfolio) :
        LET t == portfolio[i].ticker
            c == portfolio[i].relative_strike
        IN  (Usable(t) /\ ~isna(NumberOf(c))) =>
                /\ i \in Valued
                /\ rels[i] = NumberOf(c)
                /\ fair_value[i] = ExpectedFairValue(t, NumberOf(c).v)
                /\ (/\ summary_path(t) = AdjacentSummary
                    /\ c \in { Str(<<"2", "4", ",", "5", "0", "%">>),
                               Str(<<"2", "4", ".", "5", "0", "%">>),
                               Num(F(24) + 50) })
                      => fair_value[i] = Num(F(45))

\* C8 witness: "24,50%" parsed to 24.50 and matched to [20,30) with 45,
\* next to "24.50%" with the same result.
C8_Witness ==
    /\ Len(fair_value) = 2
    /\ portfolio[1].relative_strike = Str(<<"2", "4", ",", "5", "0", "%">>)
    /\ portfolio[2].relative_strike = Str(<<"2", "4", ".", "5", "0", "%">>)
    /\ summary_path(portfolio[1].ticker) = AdjacentSummary
    /\ summary_path(portfolio[2].ticker) = AdjacentSummary
    /\ rels[1] = Num(F(24) + 50)
    /\ fair_value[1] = Num(F(45))
    /\ fair_value[2] = Num(F(45))

\* the text the basket matcher writes for a statistic
StatisticText(x) ==
    IF x = F(45) THEN <<"4", "5">>
    ELSE IF x = F(60) THEN <<"6", "0">>
    ELSE IF x = F(20) THEN <<"2", "0">>
    ELSE IF x = F(10) THEN <<"1", "0">>
    ELSE IF x = F(10) + 50 THEN <<"1", "0", ".", "5">>
    ELSE <<"?">>

\* the statistic the basket row's lookup of ticker t finds: NaN when the
\* label is unparsable, tenor_days is missing, the summary is missing, no
\* bucket matches or the first matching statistic is null
BasketStatistic(t) ==
    LET m == LabelMidpoint(basket_row.strike_bucket)
    IN  IF isna(m) \/ isna(basket_row.tenor_days) \/ ~Usable(t) THEN NaN
        ELSE ExpectedFairValue(t, m.v)

BasketTickers == ListedTickers(basket_row.baskettickers)

\* the entries of a comma-joined list of n entries
Entries(text, n) == IF n = 0 THEN <<>> ELSE split(text, ",")

\* C9: for a basket row listing tickers t1..tn both outputs are
\* comma-joined lists of exactly n entries, the i-th being ti's: its
\* statistic's text, or empty where its lookup fails ("ABC,DEF" with only
\* DEF succeeding with 45 gives ",45", with only ABC succeeding "45,").
C9_BasketListsKeepPosition ==
    basket_n >= 1 =>
        LET n == Len(BasketTickers)
            mts == Entries(basket_result.max_tenor_for_strike, n)
            fvs == Entries(basket_result.fair_value, n)
        IN  /\ n = 0 => (basket_result.max_tenor_for_strike = <<>>
                         /\ basket_result.fair_value = <<>>)
            /\ Len(mts) = n
            /\ Len(fvs) = n
            /\ \A i \in 1..n :
                  /\ mts[i] = IF isna(BasketStatistic(BasketTickers[i])) THEN <<>>
                              ELSE StatisticText(BasketStatistic(BasketTickers[i]).v)
                  /\ (fvs[i] = <<>>) <=> isna(BasketStatistic(BasketTickers[i]))
            /\ (/\ BasketTickers = <<T_ABC, T_DEF>>
                /\ isna(BasketStatistic(T_ABC))
                /\ BasketStatistic(T_DEF) = Num(F(45)))
                  => basket_result.max_tenor_for_strike = <<",", "4", "5">>
            /\ (/\ BasketTickers = <<T_ABC, T_DEF>>
                /\ BasketStatistic(T_ABC) = Num(F(45))
                /\ isna(BasketStatistic(T_DEF)))
                  => basket_result.max_tenor_for_strike = <<"4", "5", ",">>

\* C9 witness: "ABC,DEF" with no summary for ABC and 45 for DEF: ",45".
C9_Witness ==
    /\ basket_n >= 1
    /\ basket_row.baskettickers = Str(<<"A", "B", "C", ",", "D", "E", "F">>)
    /\ ~summary_path(T_ABC).exists
    /\ basket_result.max_tenor_for_strike = <<",", "4", "5">>
    /\ Len(basket_result.fair_value) = 2

\* C10: per ticker of a basket row the fair_value entry is "2" when the
\* lookup finds a non-null statistic and tenor_days <= it, "3" when
\* tenor_days exceeds it, and empty when the label is unparsable,
\* tenor_days is missing, the summary is missing, no bucket matches or the
\* matched statistic is null.
C10_BasketLabel ==
    basket_n >= 1 =>
        LET n == Len(BasketTickers)
            fvs == Entries(basket_result.fair_value, n)
        IN  /\ Len(fvs) = n
            /\ \A i \in 1..n :
                  LET st == BasketStatistic(BasketTickers[i])
                  IN  fvs[i] = IF isna(st) THEN <<>>
                               ELSE IF basket_row.tenor_days.v <= st.v THEN <<"2">>
                               ELSE <<"3">>

\* C10 witness: a row of tenor 60 over two tickers, the first with a
\* matched maximum of 60 (label "2"), the second with 45 (label "3").
C10_Witness ==
    /\ basket_n >= 1
    /\ basket_row.tenor_days = Num(F(60))
    /\ BasketTickers = <<T_ABC, T_DEF>>
    /\ BasketStatistic(T_ABC) = Num(F(60))
    /\ BasketStatistic(T_DEF) = Num(F(45))
    /\ basket_result.fair_value = <<"2", ",", "3">>

(***************************************************************************)
(* Claims about the enrichers.  They are read in the state right after the *)
(* call for a ticker's file (enrich_pc = "called", or "raised" when the    *)
(* call did not return): csv_before is the file the call found, csv_file   *)
(* the file it left.                                                       *)
(***************************************************************************)
LastLog == IF enrich_log = <<>> THEN "none" ELSE enrich_log[Len(enrich_log)]

\* the call wrote the ticker's file
Written(s) == script = s /\ enrich_pc = "called" /\ LastLog = "written"

\* every column the call does not set is as it was, row by row
RowsKept(fields) ==
    /\ Len(csv_file.rows) = Len(csv_before.rows)
    /\ \A i \in 1..Len(csv_file.rows) :
          \A c \in fields : csv_file.rows[i][c] = csv_before.rows[i][c]

\* the tenor_days of the rows of csv_before whose strike cell is that of row i
TenorsOfStrike(i) ==
    { csv_before.rows[j].tenor_days.v :
        j \in { j \in 1..Len(csv_before.rows) :
                  /\ csv_before.rows[j].strike = csv_before.rows[i].strike
                  /\ ~isna(csv_before.rows[j].tenor_days) } }

GroupMax(i) ==
    IF TenorsOfStrike(i) = {} THEN NaN ELSE Num(MaxOf(TenorsOfStrike(i)))

\* C11 as stated: calculate_max_tenor keeps the number and order of the
\* rows and gives every row the maximum tenor_days of the rows with its
\* strike.
C11_EveryRowGetsGroupMax ==
    Written("max_tenor") =>
        /\ RowsKept({"strike", "tenor_days", "expiration"})
        /\ \A i \in 1..Len(csv_file.rows) :
              csv_file.rows[i].max_tenor_for_strike = GroupMax(i)

\* C11: calculate_max_tenor keeps the number and order of the rows; every
\* row with a strike gets the maximum tenor_days of the rows with that
\* strike (missing when none of them has one), and a row whose strike is
\* missing gets a missing max_tenor_for_strike whatever its tenor_days.
C11_GroupMaxForRowsWithStrike ==
    Written("max_tenor") =>
        /\ RowsKept({"strike", "tenor_days", "expiration"})
        /\ \A i \in 1..Len(csv_file.rows) :
              csv_file.rows[i].max_tenor_for_strike =
                  IF isna(csv_before.rows[i].strike) THEN NaN ELSE GroupMax(i)

\* C11 witness: rows strike=100,tenor_days=30 and strike=100,tenor_days=10
\* both got 30.
C11_Witness ==
    /\ Written("max_tenor")
    /\ Len(csv_file.rows) = 2
    /\ csv_file.rows[1].strike = Num(F(100))
    /\ csv_file.rows[2].strike = Num(F(100))
    /\ csv_file.rows[1].tenor_days = Num(F(30))
    /\ csv_file.rows[2].tenor_days = Num(F(10))
    /\ csv_file.rows[1].max_tenor_for_strike = Num(F(30))
    /\ csv_file.rows[2].max_tenor_for_strike = Num(F(30))

\* C12: calculate_max_tenor applied to a file it has already written
\* leaves the file as it was, columns and rows.
C12_MaxTenorIdempotent ==
    (script = "max_tenor" /\ enrich_runs >= 2) => csv_file = csv_before

\* C12 witness: a second application to a written file of two rows, one of
\* them with a maximum.
C12_Witness ==
    /\ script = "max_tenor"
    /\ enrich_runs = 2
    /\ Len(csv_file.rows) = 2
    /\ "max_tenor_for_strike" \in csv_before.columns
    /\ csv_file.rows[1].max_tenor_for_strike = Num(F(30))
    /\ csv_file.rows[2].tenor_days = Num(F(10))

\* the columns each enricher requires
RequiredOf(s) ==
    CASE s = "max_tenor" -> {"tenor_days", "strike"}
      [] s = "tenor" -> {"expiration"}
      [] s = "relative_strike" -> {"strike"}
      [] OTHER -> {}

\* the file the call found is readable and lacks a required column
LacksRequired ==
    /\ csv_before.exists
    /\ csv_before.columns # {}
    /\ ~(RequiredOf(script) \subseteq csv_before.columns)

\* C13: a file lacking a column its enricher requires is left as it was
\* (nothing written, no column added), the call returns normally, and the
\* loop goes on: one log entry per ticker the loop has passed, all of them
\* when the run is done.
C13_MissingColumnLeavesFile ==
    /\ (enrich_pc \in {"called", "raised"} /\ LacksRequired) =>
          /\ enrich_pc = "called"
          /\ csv_file = csv_before
          /\ enrich_runs = 0
          /\ LastLog = "skipped"
    /\ enrich_pc = "called" => Len(enrich_log) = enrich_i
    /\ enrich_pc = "loop" => Len(enrich_log) = enrich_i - 1
    /\ enrich_pc = "done" => Len(enrich_log) = Len(tickers)

\* C13 witness: the first ticker's file was skipped for its column and the
\* second ticker's file was then written.
C13_Witness ==
    /\ enrich_pc = "done"
    /\ script = "tenor"
    /\ enrich_log = <<"skipped", "written">>

\* C14: with a non-zero spot price every row of the written file carries
\* that spot_price and relative_strike = abs(strike / spot_price) * 100
\* (cut to hundredths), so never negative, computed from the row's own
\* strike alone; a row without strike has no relative_strike.
C14_RelativeStrikeFormula ==
    (Written("relative_strike") /\ spot_price.v # 0) =>
        /\ RowsKept({"strike", "tenor_days", "expiration"})
        /\ \A i \in 1..Len(csv_file.rows) :
              LET st == csv_before.rows[i].strike
                  rs == csv_file.rows[i].relative_strike
                  p == Abs(spot_price.v)
              IN  /\ csv_file.rows[i].spot_price = spot_price
                  /\ IF isna(st) THEN isna(rs)
                     ELSE /\ rs.k = "num"
                          /\ rs.v >= 0
                          /\ rs.v * p <= Abs(st.v) * 10000
                          /\ Abs(st.v) * 10000 < (rs.v + 1) * p

\* C14 witness: strikes 100 and -50 at spot 200 give 50.00 and 25.00.
C14_Witness ==
    /\ Written("relative_strike")
    /\ spot_price = Num(F(200))
    /\ Len(csv_file.rows) = 2
    /\ csv_file.rows[1].strike = Num(F(100))
    /\ csv_file.rows[2].strike = Num(0 - F(50))
    /\ csv_file.rows[1].relative_strike = Num(F(50))
    /\ csv_file.rows[2].relative_strike = Num(F(25))

\* C15: with a spot price of 0 the enrichment fails for the whole file:
\* the file is left as it was, with no relative_strike values.
C15_ZeroSpotSkipsFile ==
    (/\ script = "relative_strike"
     /\ enrich_pc \in {"called", "raised"}
     /\ spot_price = Num(0)
     /\ csv_before.exists) =>
        /\ csv_file = csv_before
        /\ "relative_strike" \notin csv_file.columns
        /\ LastLog # "written"

\* the calendar-day number an expiration cell stands for, 0 for none
ExpirationDay(c) ==
    IF c = Str(Text_2025_01_17) THEN 17
    ELSE IF c = Str(Text_2025_01_03) THEN 3
    ELSE IF c = Str(Text_2025_02_01) THEN 32
    ELSE 0

\* C16: tenor_days is the calendar-day number of the expiration minus that
\* of the snapshot date, configured or defaulted to the time of the run,
\* and missing for an unparsable expiration.
C16_TenorIsCalendarDayDifference ==
    Written("tenor") =>
        \A i \in 1..Len(csv_file.rows) :
            LET d == ExpirationDay(csv_before.rows[i].expiration)
            IN  csv_file.rows[i].tenor_days =
                    IF d = 0 THEN NaN ELSE Num(F(d - snap_dt.day))

\* C20: an error raised while one ticker's file is processed is logged and
\* the file skipped: no exception leaves the loop of run().
C20_FileErrorIsSkipped ==
    /\ enrich_pc # "raised"
    /\ \A i \in 1..Len(enrich_log) : enrich_log[i] # "raised"

(***************************************************************************)
(* Claims about run() of aggregate_strike_buckets.py                       *)
(***************************************************************************)
\* the bucket definition file is missing or its list is absent or empty
NoBuckets ==
    \/ ~agg_env.yaml.exists
    \/ ~agg_env.yaml.is_list
    \/ agg_env.yaml.strike_buckets = <<>>

AggOver == agg_pc \in {"returned", "aborted", "done"}

\* no summary file has been written or modified since the run began
NoSummaryTouched ==
    /\ agg_log = <<>>
    /\ summary_files[T_ABC] \in {NoFile, StaleSummary}
    /\ \A t \in {T_ABC, T_DEF} : summary_files[t] = summary_files[T_ABC]

\* C18 as stated: whenever the bucket definition is missing or empty the
\* run ends with a non-zero exit status and touches no summary file.
C18_NoBucketsAlwaysFatal ==
    script = "aggregate" /\ NoBuckets =>
        /\ NoSummaryTouched
        /\ AggOver => exit_status(agg_pc) # 0

\* C18: with tickers configured and the output directory present, a run
\* whose bucket definition is missing or empty ends with a non-zero exit
\* status; without tickers or output directory it returns with status 0
\* before the definition is looked at; in both cases no summary file is
\* written or modified.
C18_NoBucketsFatalOnceLoaded ==
    script = "aggregate" /\ NoBuckets =>
        /\ NoSummaryTouched
        /\ agg_pc \notin {"loop", "called", "done"}
        /\ AggOver =>
              exit_status(agg_pc) =
                  IF agg_env.has_tickers /\ agg_env.outdir_exists THEN 1 ELSE 0

\* C18 witness: the run was aborted on an existing file with an empty list,
\* the stale summaries untouched.
C18_Witness ==
    /\ agg_pc = "aborted"
    /\ agg_env.yaml.exists
    /\ agg_env.yaml.is_list
    /\ summary_files[T_DEF] = StaleSummary

\* C19: a ticker whose directory or input file is missing is skipped with
\* its summary left as it was; a ticker whose input has both columns and a
\* clean row gets its summary written; the loop passes every ticker, so
\* the tickers before and after a skipped one are handled.
C19_MissingInputSkipsTicker ==
    /\ agg_pc = "called" =>
          /\ Len(agg_log) = agg_i
          /\ ~input_file.exists =>
                /\ agg_log[agg_i] = "missing"
                /\ summary_files[LastTicker] = summary_before
          /\ (HasBothColumns(input_file) /\ CleanRows # {}) =>
                /\ agg_log[agg_i] = "written"
                /\ SummaryEmitted
    /\ agg_pc = "loop" => Len(agg_log) = agg_i - 1
    /\ agg_pc = "done" => Len(agg_log) = Len(tickers)

\* C19 witness: the first ticker had no input, the second got its summary.
C19_Witness ==
    /\ agg_pc = "called"
    /\ agg_log = <<"missing", "written">>
    /\ summary_files[T_ABC] = NoFile
    /\ summary_files[T_DEF].exists
    /\ Len(summary_files[T_DEF].rows) = Len(buckets)

(***************************************************************************)
(* Claim about the matchers' summary cache                                 *)
(***************************************************************************)
\* C17: within one run of a matcher script the summary file of a ticker is
\* looked up on disk at most once, whatever the portfolio rows and files.
C17_SummaryReadAtMostOnce ==
    \A t \in DOMAIN disk_reads : disk_reads[t] <= 1

(***************************************************************************)
(* Claims about the orchestrator.  pipe_trace holds the steps this run has *)
(* started, run_dates what each script made of valuation_date.             *)
(***************************************************************************)
\* the text is a date in none of the formats a script reads
NoDate(c) ==
    /\ c.k = "str"
    /\ strip(c.s) # <<>>
    /\ strptime_ymd(strip(c.s)) = 0
    /\ strptime_mdy(strip(c.s)) = 0
    /\ strptime_dmy(strip(c.s)) = 0

\* C21: a valuation_date that cannot be parsed is fatal in every script that
\* resolves the run date (orchestrator, basket matcher, single-ticker
\* matcher): the script ends before it produces, moves or overwrites any
\* output, so the orchestrator starts no step and csv_out stays as it was.
C21_UnparsableDateIsFatal ==
    NoDate(valuation_date) =>
        /\ run_dates.orchestrator.k # "date"
        /\ run_dates.basket.k # "date"
        /\ run_dates.single.k # "date"
        /\ pipe_trace = <<>>
        /\ csv_out = {}

\* the move of this run has been made
Moved == Len(pipe_trace) >= 6 /\ pipe_trace[6].rc = 0

\* a ticker name the move's loop does not pass over
Ordinary(t) == t # Name_enriched /\ ~(Len(t) = 4 /\ AllDigits(t))

\* the summary file at csv_out/YYYY/MM/DD/enriched/T/T_strike_buckets_summary.csv
\* is there, written by run r
DatedSummary(t, r) ==
    FileNode(dest_root_of(run_dates.orchestrator.day) \o <<t>>, summary_name(t), r)
        \in csv_out

\* C22: after any sequence of successful pipeline runs for one valuation
\* date, the summary at the ticker's dated path is the one the most recent
\* run wrote, and the move step does not fail.
C22_SummaryIsLatestRuns ==
    /\ pipe_pc # "raised"
    /\ Moved =>
         \A i \in 1..Len(pipe_tickers) :
            (Ordinary(pipe_tickers[i]) /\ pipe_agg_log[i] = "written")
                => DatedSummary(pipe_tickers[i], pipe_run)

\* C23: the orchestrator starts its steps in the order download, add tenor,
\* add max tenor, add relative strike, aggregate, move, basket fair value;
\* a step is started only when every earlier one ended with code 0, and
\* the first other code is the orchestrator's exit code, no later step
\* being started (a failure before the move leaves csv_out unmoved).
C23_StepsInOrderUntilFailure ==
    /\ Len(pipe_trace) <= Len(Steps)
    /\ \A i \in 1..Len(pipe_trace) :
          /\ pipe_trace[i].step = Steps[i]
          /\ i < Len(pipe_trace) => pipe_trace[i].rc = 0
    /\ Steps = << "options_to_csv", "add_tenor_days", "add_max_tenor",
                  "add_relative_strike", "aggregate_strike_buckets",
                  "move_csv_out_to_enriched",
                  "basket_portfolio_add_fair_value_from_buckets" >>
    /\ (pipe_trace # <<>> /\ pipe_trace[Len(pipe_trace)].rc # 0) =>
          /\ pipe_pc \in {"exited", "raised"}
          /\ pipe_exit = pipe_trace[Len(pipe_trace)].rc
          /\ Len(pipe_trace) < 6 =>
                ~\E n \in csv_out : Len(n.dir) > 1 /\ n.run = pipe_run
    /\ pipe_pc = "step" => pipe_step = Len(pipe_trace) + 1
    /\ pipe_pc = "done" => Len(pipe_trace) = Len(Steps) /\ pipe_exit = 0

\* C23 witness: add_max_tenor ended with code 2 after two steps that ended
\* with 0; the orchestrator has exited with 2 and nothing has been moved.
C23_Witness ==
    /\ pipe_pc = "exited"
    /\ Len(pipe_trace) = 3
    /\ pipe_trace[3] = [step |-> "add_max_tenor", rc |-> 2]
    /\ pipe_exit = 2
    /\ \E i \in 1..Len(pipe_tickers) : options_file[i].exists
    /\ ~is_dir(csv_out, << <<"2", "0", "2", "5">> >>)

\* C26: whenever the orchestrator and the basket matcher both run to their
\* end, the dated directory the orchestrator moved into is the one the
\* basket matcher's load_summary reads from.
C26_SameDatedDirectory ==
    pipe_pc = "done" => run_dates.orchestrator.day = run_dates.basket.day

\* C27: after the move on a csv_out without dated directory (the first
\* run), every ticker whose summary aggregation wrote, whatever its name,
\* has the summary at its dated path, and no directory of it is left at the
\* top level of csv_out.
C27_MoveTakesEveryTicker ==
    (pipe_run = 1 /\ Moved) =>
        \A i \in 1..Len(pipe_tickers) :
            pipe_agg_log[i] = "written" =>
                /\ DatedSummary(pipe_tickers[i], 1)
                /\ ~is_dir(csv_out, <<pipe_tickers[i]>>)

\* aggregation is the step to run next, or has just run
AtAggregation ==
    \/ pipe_pc = "step" /\ Steps[pipe_step] = "aggregate_strike_buckets"
    \/ pipe_pc = "step" /\ Len(pipe_trace) = 5
                        /\ pipe_trace[5].step = "aggregate_strike_buckets"

BothColumns(f) == {"relative_strike", "max_tenor_for_strike"} \subseteq f.columns

\* C30 as stated: when aggregation reads it, every ticker's options file
\* has the columns relative_strike and max_tenor_for_strike.
C30_EveryFileHasBothColumns ==
    AtAggregation =>
        \A i \in 1..Len(pipe_tickers) :
            options_file[i].exists => BothColumns(options_file[i])

\* C30 amended: when aggregation reads it, every ticker's options file has
\* max_tenor_for_strike, and relative_strike too when add_relative_strike
\* resolved a spot price for the ticker.
C30_BothColumnsWhenSpotResolved ==
    AtAggregation =>
        \A i \in 1..Len(pipe_tickers) :
            options_file[i].exists =>
                /\ "max_tenor_for_strike" \in options_file[i].columns
                /\ ~isna(pipe_spots[i]) => BothColumns(options_file[i])

\* C30 witness: aggregation is about to read a file downloaded in this run
\* whose row has a tenor maximum and a relative strike of 50%.
C30_Witness ==
    /\ pipe_pc = "step"
    /\ Steps[pipe_step] = "aggregate_strike_buckets"
    /\ options_file[1].exists
    /\ Len(options_file[1].rows) = 1
    /\ ~isna(pipe_spots[1])
    /\ BothColumns(options_file[1])
    /\ options_file[1].rows[1].relative_strike = Num(F(50))
    /\ ~isna(options_file[1].rows[1].max_tenor_for_strike)

(***************************************************************************)
(* Claim about add_fair_value.py.                                          *)
(***************************************************************************)
\* the rows of the summary whose range (lower_strike, upper_strike] holds r
EarlierContaining(r) ==
    { k \in 1..Len(earlier_summary.rows) :
        /\ earlier_summary.rows[k].lower_strike.v < r
        /\ r <= earlier_summary.rows[k].upper_strike.v }

\* the number a relative_strike cell stands for
EarlierNumber(c) ==
    IF c = Str(<<"3", "0">>) THEN Num(F(30))
    ELSE IF c = Str(<<"2", "0", ",", "0", "0", "%">>) THEN Num(F(20))
    ELSE c

\* C24: the earlier revision of the matcher selects the summary rows with
\* lower_strike < rel <= upper_strike and returns max_relative_strike of the
\* first of them (NaN when there is none); a rel on a boundary two buckets
\* share is matched by the bucket whose upper bound it is, never by the one
\* whose lower bound it is.
C24_EarlierRangeIsUpperClosed ==
    \A i \in 1..Len(earlier_fair_value) :
        (earlier_summary.exists /\ EarlierNumber(earlier_rows[i]).k = "num") =>
            LET r == EarlierNumber(earlier_rows[i]).v
                found == earlier_fair_value[i]
            IN  /\ ~found.raised
                /\ AsSet(found.match) = EarlierContaining(r)
                /\ found.fair_value =
                      IF EarlierContaining(r) = {} THEN NaN
                      ELSE earlier_summary.rows[Least(EarlierContaining(r))]
                               .max_relative_strike
                /\ \A k \in 1..Len(earlier_summary.rows) :
                      /\ earlier_summary.rows[k].lower_strike.v = r
                            => k \notin AsSet(found.match)
                      /\ (/\ earlier_summary.rows[k].upper_strike.v = r
                          /\ earlier_summary.rows[k].lower_strike.v < r)
                            => k \in AsSet(found.match)

\* C24 witness: rel 20 against (0,20] (20,30] (30,50] is matched by the
\* first bucket alone and gets its 15.
C24_Witness ==
    /\ earlier_summary = EarlierAdjacent
    /\ Len(earlier_fair_value) >= 1
    /\ earlier_rows[1] = Num(F(20))
    /\ earlier_fair_value[1].match = <<1>>
    /\ earlier_fair_value[1].fair_value = Num(F(15))

(***************************************************************************)
(* Claim about GraphQLClient.request.                                      *)
(***************************************************************************)
\* the configured URL without the blanks around it, and with its trailing
\* slash toggled
ConfiguredUrl == <<"h", "/", "q">> \o (IF gql_url = <<"h", "/", "q">> THEN <<>>
                                       ELSE IF gql_url = <<"h", "/", "q", "/">>
                                       THEN <<"/">> ELSE <<"/", "/">>)
ToggledUrl == IF gql_url = <<"h", "/", "q">> THEN <<"h", "/", "q", "/">>
              ELSE <<"h", "/", "q">>

LastResponse == gql_responses[Len(gql_responses)]

\* C25: a call of request makes at most two POSTs, the first to the
\* configured URL, the second to that URL with its trailing slash toggled
\* and only after a 404 to the first; a status >= 400 of the last response,
\* or GraphQL errors in its body, make the call raise, and no POST follows.
C25_AtMostTwoPosts ==
    /\ Len(gql_posts) <= 2
    /\ Len(gql_posts) >= 1 => gql_posts[1] = ConfiguredUrl
    /\ Len(gql_posts) = 2 =>
          /\ gql_responses[1].status = 404
          /\ gql_posts[2] = ToggledUrl
    /\ gql_pc = "retrying" => (Len(gql_posts) = 1 /\ gql_responses[1].status = 404)
    /\ gql_pc \in {"returned", "raised"} =>
          /\ (Len(gql_posts) = 1 => gql_responses[1].status # 404)
          /\ (LastResponse.status >= 400 \/ LastResponse.body = "errors")
                => gql_pc = "raised"
    /\ gql_pc = "returned" =>
          LastResponse.status = 200 /\ LastResponse.body \in {"data", "errors_empty"}

\* C25 witness: a 404 from "h/q/", then a 500 from "h/q": two POSTs and the
\* call has raised.
C25_Witness ==
    /\ gql_pc = "raised"
    /\ gql_posts = << <<"h", "/", "q", "/">>, <<"h", "/", "q">> >>
    /\ gql_responses[1].status = 404
    /\ gql_responses[2].status = 500

(***************************************************************************)
(* Claim about the aggregator's summary as the matcher reads it.           *)
(***************************************************************************)
\* input row i has a numeric relative strike and a numeric tenor maximum
HandedClean(i) ==
    /\ ~isna(to_numeric(handed_input.rows[i].relative_strike))
    /\ ~isna(to_numeric(handed_input.rows[i].max_tenor_for_strike))

\* the relative strike of input row i lies in a configured bucket
HandedInBucket(i) ==
    \E b \in 1..Len(handed_buckets) :
        /\ handed_buckets[b].lower <= to_numeric(handed_input.rows[i].relative_strike).v
        /\ to_numeric(handed_input.rows[i].relative_strike).v < handed_buckets[b].upper

\* C28: for non-overlapping buckets, if the input holds a row with numeric
\* relative_strike x and max_tenor_for_strike m and x lies in a configured
\* bucket, matching rel = x against the summary the aggregator produced
\* gives a fair_value v that is not null, with v >= m.
C28_MatcherFindsAggregatedRow ==
    (/\ handed_pc = "matched"
     /\ NonOverlapping(handed_buckets)
     /\ HandedClean(handed_row)
     /\ HandedInBucket(handed_row)) =>
        /\ ~handed_result.raised
        /\ handed_result.fair_value.k = "num"
        /\ handed_result.fair_value.v
              >= to_numeric(handed_input.rows[handed_row].max_tenor_for_strike).v

\* C28 witness: two rows of relative strike 25 with maxima 5 and 45, buckets
\* [0,25) [25,50): matching the first row's 25 gives 45.
C28_Witness ==
    /\ handed_pc = "matched"
    /\ handed_buckets = << Bucket(F(0), F(25)), Bucket(F(25), F(50)) >>
    /\ Len(handed_input.rows) = 2
    /\ handed_input.rows[1] = InputRow(Num(F(25)), Num(F(5)))
    /\ handed_input.rows[2] = InputRow(Num(F(25)), Num(F(45)))
    /\ handed_row = 1
    /\ handed_result.fair_value = Num(F(45))

(***************************************************************************)
(* Claim about the labels of the basket matcher.                           *)
(***************************************************************************)
\* the bounds a strike_bucket label of the form "lo-hi" names
LabelBounds(c) ==
    IF c = Str(<<"2", "0", "-", "3", "0">>) THEN <<F(20), F(30)>>
    ELSE IF c = Str(<<"2", "0", "-", "4", "0">>) THEN <<F(20), F(40)>>
    ELSE IF c = Str(<<"6", "0", "-", "8", "0">>) THEN <<F(60), F(80)>>
    ELSE IF c = Str(<<"3", "0", "-", "5", "0">>) THEN <<F(30), F(50)>>
    ELSE <<>>

\* the labels without '-' or with a part that is no number: "25", "20-x",
\* and "-5-10", whose part before the first '-' is empty
BadLabels ==
    { Str(<<"2", "5">>), Str(<<"2", "0", "-", "x">>), Str(<<"-", "5", "-", "1", "0">>) }

\* no two rows of the ticker's summary overlap
NonOverlappingRows(t) ==
    \A i, j \in 1..Len(summary_path(t).rows) :
        i # j => \/ summary_path(t).rows[i].upper.v <= summary_path(t).rows[j].lower.v
                 \/ summary_path(t).rows[j].upper.v <= summary_path(t).rows[i].lower.v

\* C29: a label "lo-hi" that names a row of a ticker's non-overlapping
\* summary (lower = lo, upper = hi, lo < hi) is resolved through its
\* midpoint to exactly that row, whose statistic is the ticker's entry; a
\* label without '-' or with a part that is no number, "-5-10" among them,
\* resolves to no row and leaves every entry of both outputs empty.
C29_LabelNamesItsBucket ==
    basket_n >= 1 =>
        /\ \A j \in 1..Len(basket_lookups) :
              LET t == basket_lookups[j].ticker
                  b == LabelBounds(basket_row.strike_bucket)
                  rows == summary_path(t).rows
              IN  (/\ b # <<>>
                   /\ ~isna(basket_row.tenor_days)
                   /\ Usable(t)
                   /\ NonOverlappingRows(t)) =>
                      \A k \in 1..Len(rows) :
                          (rows[k].lower.v = b[1] /\ rows[k].upper.v = b[2] /\ b[1] < b[2])
                              => /\ basket_lookups[j].match = <<k>>
                                 /\ Entries(basket_result.max_tenor_for_strike,
                                            Len(basket_lookups))[j]
                                      = IF isna(rows[k].max_tenor_for_strike) THEN <<>>
                                        ELSE StatisticText(rows[k].max_tenor_for_strike.v)
        /\ basket_row.strike_bucket \in BadLabels =>
              /\ \A j \in 1..Len(basket_lookups) :
                    /\ basket_lookups[j].match = <<>>
                    /\ ~basket_lookups[j].masked
                    /\ Entries(basket_result.max_tenor_for_strike,
                               Len(basket_lookups))[j] = <<>>
                    /\ Entries(basket_result.fair_value, Len(basket_lookups))[j] = <<>>

\* C29 witness: "30-50" over ABC with the summary [0,20) [20,30) [30,50):
\* the midpoint 40 finds the third row and its 20.
C29_Witness ==
    /\ basket_n >= 1
    /\ basket_row.strike_bucket = Str(<<"3", "0", "-", "5", "0">>)
    /\ basket_row.baskettickers = Str(<<"A", "B", "C">>)
    /\ ~isna(basket_row.tenor_days)
    /\ summary_path(T_ABC) = AdjacentSummary
    /\ basket_lookups[1].match = <<3>>
    /\ basket_result.max_tenor_for_strike = <<"2", "0">>

====
